---- MODULE Spec2Model ----
(***************************************************************************)
(* Position discovery of the Hardig web-lite client                        *)
(* (web-lite/src/discovery.js), run against the accounts of the on-chain   *)
(* program: PositionState and KeyState accounts and the MPL-Core assets    *)
(* they name.                                                              *)
(*                                                                         *)
(* An address is a triple <<kind, name, n>>.  A program-derived address    *)
(* keeps the name and number of its seed and takes the seed label as kind. *)
(***************************************************************************)
EXTENDS Integers, Sequences, FiniteSets, TLC

\* ------------------------------------------------------------------------
\* Bounds
\* ------------------------------------------------------------------------

\* administrator rotations (execute_recovery) explored on the chain
MaxRotations == 1

\* ------------------------------------------------------------------------
\* Addresses
\* ------------------------------------------------------------------------

NULL == <<"null", "", 0>>

W1 == <<"wallet", "w1", 0>>
W2 == <<"wallet", "w2", 0>>
Wallets == {W1, W2}

\* the first administrator asset of a position; it becomes the authority seed
SeedA == <<"asset", "A", 0>>
SeedB == <<"asset", "B", 0>>
Seeds == <<SeedA, SeedB>>

\* the assets of the two delegated keys that have a KeyState
Key1 == <<"asset", "k1", 0>>
Key2 == <<"asset", "k2", 0>>
KeyAssets == <<Key1, Key2>>

\* an asset that is the authority seed of no position
Stray == <<"asset", "zz", 0>>

deriveProgramPda(adminNftMint) == <<"authority", adminNftMint[2], adminNftMint[3]>>

derivePositionPda(adminNftMint) == <<"position", adminNftMint[2], adminNftMint[3]>>

deriveKeyStatePda(assetPubkey) == <<"key_state", assetPubkey[2], assetPubkey[3]>>

\* PublicKey.toString(): the base58 text of an address
toBase58(pk) == <<"b58">> \o pk

\* new PublicKey(text)
PublicKey(text) == SubSeq(text, 2, 4)

\* ------------------------------------------------------------------------
\* Permission masks
\* ------------------------------------------------------------------------

PERM_MANAGE_KEYS == 32
PRESET_ADMIN == 63
PRESET_OPERATOR == 25
PRESET_DEPOSITOR == 9

RECURSIVE popcount(_)
popcount(n) == IF n = 0 THEN 0 ELSE (n % 2) + popcount(n \div 2)

\* (permissions & PERM_MANAGE_KEYS) !== 0
HasManage(permissions) == (permissions \div PERM_MANAGE_KEYS) % 2 = 1

\* ------------------------------------------------------------------------
\* MPL-Core asset accounts
\* ------------------------------------------------------------------------
\* key is byte 0 (1 = AssetV1), uaTag is byte 33; permissions and position
\* are the values of the attributes of those names: permissions a string of
\* decimal digits (a digit 0..9, or 10 for any other character), position
\* the base58 text of an address; <<>> is an attribute that is not there.

NoAccount ==
  [exists |-> FALSE, key |-> 0, owner |-> NULL, uaTag |-> 0,
   permissions |-> <<>>, position |-> <<>>]

Asset(owner, permissions, position) ==
  [exists |-> TRUE, key |-> 1, owner |-> owner, uaTag |-> 2,
   permissions |-> permissions, position |-> position]

ParsedNull == [ok |-> FALSE, owner |-> NULL]

parseMplCoreAsset(info) ==
  IF ~info.exists THEN ParsedNull
  ELSE IF info.key # 1 THEN ParsedNull
  ELSE IF info.uaTag \notin {0, 1, 2} THEN ParsedNull
  ELSE [ok |-> TRUE, owner |-> info.owner]

\* readAttributeFromAssetData: the value of the named attribute, <<>> for null
readAttributeFromAssetData(info, attributeName) ==
  IF attributeName = "permissions" THEN info.permissions ELSE info.position

\* parseInt(value, 10): the leading decimal digits; -1 stands for NaN
RECURSIVE parseDigits(_, _, _)
parseDigits(value, i, acc) ==
  IF i > Len(value) \/ value[i] > 9 THEN acc
  ELSE parseDigits(value, i + 1, 10 * acc + value[i])

parseInt(value) ==
  IF Len(value) = 0 \/ value[1] > 9 THEN -1 ELSE parseDigits(value, 1, 0)

\* the permissions mask of an asset, -1 for null
readPermissionsFromAssetData(info) ==
  LET value == readAttributeFromAssetData(info, "permissions")
      parsed == parseInt(value)
  IN  IF value = <<>> THEN -1
      ELSE IF parsed >= 0 /\ parsed <= 255 THEN parsed ELSE -1

readPositionBindingFromAssetData(info) ==
  readAttributeFromAssetData(info, "position")

\* ------------------------------------------------------------------------
\* Account data as bytes
\* ------------------------------------------------------------------------
\* Account data is a sequence of bytes, data[i + 1] being the byte at offset
\* i.  A number read from it is kept as a sequence of bytes too, least
\* significant first, so that 64-bit values keep all their bits.

Min(a, b) == IF a < b THEN a ELSE b

Zeros(n) == [i \in 1..n |-> 0]

\* data with the given bytes written at the offset
Put(data, offset, bytes) ==
  [i \in 1..Len(data) |->
     IF i > offset /\ i <= offset + Len(bytes) THEN bytes[i - offset] ELSE data[i]]

\* data.slice(start, end): clamped to the data
slice(data, start, end) ==
  IF start >= Len(data) \/ end <= start THEN <<>>
  ELSE SubSeq(data, start + 1, Min(end, Len(data)))

\* data[offset]: -1 stands for undefined
byteAt(data, offset) == IF offset < Len(data) THEN data[offset + 1] ELSE -1

\* a byte the client reads behind the end of the data, from the ArrayBuffer
\* the data is a view of
ForeignByte == 170

\* new DataView(data.buffer, data.byteOffset): the view runs to the end of the
\* underlying ArrayBuffer, slack bytes beyond the data
viewLength(data, slack) == Len(data) + slack

viewBytes(data, slack, offset, n) ==
  [k \in 1..n |-> IF offset + k <= Len(data) THEN data[offset + k] ELSE ForeignByte]

\* a DataView read of n bytes at the offset throws a RangeError
rangeError(data, slack, offset, n) == offset + n > viewLength(data, slack)

\* view.getBigUint64(offset, true): the 8 bytes, least significant first
getBigUint64(data, slack, offset) == viewBytes(data, slack, offset, 8)

\* view.getUint32(offset, true); a value of 2^30 or more is held as 2^30,
\* which is more than the length of any account
U32Cap == 1073741824

getUint32(data, slack, offset) ==
  LET b == viewBytes(data, slack, offset, 4)
  IN  IF b[4] >= 64 THEN U32Cap
      ELSE b[1] + 256 * b[2] + 65536 * b[3] + 16777216 * b[4]

RECURSIVE bitsOf(_, _)
bitsOf(n, k) == IF k = 0 THEN <<>> ELSE <<n % 2>> \o bitsOf(n \div 2, k - 1)

RECURSIVE bitsOfBytes(_)
bitsOfBytes(bytes) ==
  IF bytes = <<>> THEN <<>> ELSE bitsOf(bytes[1], 8) \o bitsOfBytes(Tail(bytes))

RECURSIVE bytesOfBits(_)
bytesOfBits(bits) ==
  IF bits = <<>> THEN <<>>
  ELSE <<bits[1] + 2 * bits[2] + 4 * bits[3] + 8 * bits[4]
           + 16 * bits[5] + 32 * bits[6] + 64 * bits[7] + 128 * bits[8]>>
         \o bytesOfBits(SubSeq(bits, 9, Len(bits)))

\* the position of the highest 1 bit, 0 when there is none
topBit(bits) ==
  LET ones == {i \in 1..Len(bits) : bits[i] = 1}
  IN  IF ones = {} THEN 0 ELSE CHOOSE i \in ones : \A j \in ones : j <= i

RECURSIVE increment(_)
increment(bits) ==
  IF bits = <<>> THEN <<1>>
  ELSE IF bits[1] = 0 THEN <<1>> \o Tail(bits)
  ELSE <<0>> \o increment(Tail(bits))

\* the significand of a double
MantissaBits == 53

\* the bytes of a Number: 9 of them, since Number(2^64 - 1) is 2^64
NumberBytes == 9

\* an integer that a Number holds exactly
exactNumber(big) == big \o Zeros(NumberBytes - Len(big))

\* Number(big): the double nearest to a 64-bit integer, ties to even
Number(big) ==
  LET bits == bitsOfBytes(big)
      h == topBit(bits)
  IN  IF h <= MantissaBits THEN exactNumber(big)
      ELSE LET shift == h - MantissaBits
               kept == SubSeq(bits, shift + 1, h)
               half == bits[shift] = 1
               rest == \E i \in 1..(shift - 1) : bits[i] = 1
               up == half /\ (rest \/ kept[1] = 1)
               mant == IF up THEN increment(kept) ELSE kept
               all == Zeros(shift) \o mant
           IN  bytesOfBits(all \o Zeros(8 * NumberBytes - Len(all)))

\* new TextDecoder().decode(bytes): the characters; a byte that is not ASCII
\* comes out as U+FFFD
ReplacementChar == 65533

decodeText(bytes) ==
  [i \in 1..Len(bytes) |-> IF bytes[i] < 128 THEN bytes[i] ELSE ReplacementChar]

\* the 32 bytes of an address, and the address of 32 bytes; left-padded with
\* zeros when fewer bytes are given, as new PublicKey(bytes) does
AddressKinds == <<"asset", "wallet", "position", "authority", "key_state", "promo">>
AddressNames == <<"A", "B", "k1", "k2", "zz", "w1", "w2", "p1", "p2", "p3">>

codeOf(names, x) ==
  LET hits == {i \in 1..Len(names) : names[i] = x}
  IN  IF hits = {} THEN 0 ELSE CHOOSE i \in hits : TRUE

toBuffer(pk) ==
  Zeros(29) \o <<codeOf(AddressKinds, pk[1]), codeOf(AddressNames, pk[2]), pk[3]>>

PublicKeyLength == 32

PublicKeyOfBytes(bytes) ==
  LET b == Zeros(PublicKeyLength - Len(bytes)) \o bytes
  IN  <<IF b[30] \in 1..Len(AddressKinds) THEN AddressKinds[b[30]] ELSE "null",
        IF b[31] \in 1..Len(AddressNames) THEN AddressNames[b[31]] ELSE "",
        b[32]>>

\* ------------------------------------------------------------------------
\* The decoders of the program's accounts
\* ------------------------------------------------------------------------
\* A decoder is given the data and the number of bytes (slack) by which the
\* ArrayBuffer under the data is longer than the data.  outcome is "record",
\* "null" for a record passed over, or "throws" for a RangeError.

KEY_STATE_SIZE == 137
POSITION_SIZE == 205
PROMO_CONFIG_SIZE == 327
PROTOCOL_CONFIG_SIZE == 72

\* parseBucket(data): four u64 made Numbers
parseBucket(data, slack) ==
  [capacity |-> Number(getBigUint64(data, slack, 0)),
   refillPeriod |-> Number(getBigUint64(data, slack, 8)),
   level |-> Number(getBigUint64(data, slack, 16)),
   lastUpdate |-> Number(getBigUint64(data, slack, 24))]

\* parseKeyState(data); the buckets are read from slices, which are views of
\* the same ArrayBuffer or copies of their own
parseKeyState(data, slack) ==
  IF Len(data) < KEY_STATE_SIZE THEN [outcome |-> "null"]
  ELSE [outcome |-> "record",
        authoritySeed |-> PublicKeyOfBytes(slice(data, 8, 40)),
        sellBucket |-> parseBucket(slice(data, 73, 105), 0),
        borrowBucket |-> parseBucket(slice(data, 105, 137), 0)]

\* one turn of the loop over the KeyState accounts of discoverPosition
parseKeyStateEntry(data, slack) ==
  IF Len(data) < KEY_STATE_SIZE THEN [outcome |-> "null"]
  ELSE [outcome |-> "record",
        asset |-> PublicKeyOfBytes(slice(data, 40, 72)),
        buckets |-> parseKeyState(data, slack),
        authoritySeed |-> parseKeyState(data, slack).authoritySeed]

\* one turn of the loop over the PositionState accounts of discoverPosition
parsePositionEntry(data, slack) ==
  IF Len(data) < POSITION_SIZE THEN [outcome |-> "null"]
  ELSE [outcome |-> "record", adminAsset |-> PublicKeyOfBytes(slice(data, 8, 40))]

\* the position account as discoverPosition and selectActivePosition read it
\* after getAccountInfo: no test of the length; lastAdminActivity is read at
\* 122 (only that the read is in range is kept here)
parsePositionData(data, slack) ==
  IF \/ rangeError(data, slack, 104, 8)
     \/ rangeError(data, slack, 112, 8)
     \/ rangeError(data, slack, 122, 8)
  THEN [outcome |-> "throws"]
  ELSE [outcome |-> "record",
        adminAsset |-> PublicKeyOfBytes(slice(data, 8, 40)),
        authoritySeed |-> PublicKeyOfBytes(slice(data, 8, 40)),
        positionPda |-> PublicKeyOfBytes(slice(data, 40, 72)),
        marketConfig |-> PublicKeyOfBytes(slice(data, 72, 104)),
        depositedNav |-> Number(getBigUint64(data, slack, 104)),
        userDebt |-> Number(getBigUint64(data, slack, 112)),
        bump |-> byteAt(data, 130)]

\* checkProtocol: the collection of the ProtocolConfig account
parseProtocolConfig(data, slack) ==
  IF Len(data) >= PROTOCOL_CONFIG_SIZE
  THEN [outcome |-> "record", collection |-> PublicKeyOfBytes(slice(data, 40, 72))]
  ELSE [outcome |-> "null"]

\* parseBorshString(data, offset)
parseBorshString(data, slack, offset) ==
  IF offset + 4 > Len(data) THEN [value |-> <<>>, bytesRead |-> 4]
  ELSE LET len == getUint32(data, slack, offset)
           end == offset + 4 + len
       IN  IF end > Len(data) THEN [value |-> <<>>, bytesRead |-> 4]
           ELSE [value |-> decodeText(slice(data, offset + 4, end)),
                 bytesRead |-> 4 + len]

\* the offset of the first string of a PromoConfig
PromoStringsOffset == 90

\* one turn of the loop of discoverPromos
parsePromo(pubkey, data, slack) ==
  IF Len(data) < PROMO_CONFIG_SIZE THEN [outcome |-> "null"]
  ELSE LET nameSuffixResult == parseBorshString(data, slack, PromoStringsOffset)
           offset1 == PromoStringsOffset + nameSuffixResult.bytesRead
           imageUriResult == parseBorshString(data, slack, offset1)
           offset2 == offset1 + imageUriResult.bytesRead
           marketNameResult == parseBorshString(data, slack, offset2)
           offset3 == offset2 + marketNameResult.bytesRead
       IN  [outcome |-> "record",
            pda |-> pubkey,
            config |->
              [authoritySeed |-> PublicKeyOfBytes(slice(data, 8, 40)),
               permissions |-> byteAt(data, 40),
               borrowCapacity |-> Number(getBigUint64(data, slack, 41)),
               borrowRefillPeriod |-> Number(getBigUint64(data, slack, 49)),
               sellCapacity |-> Number(getBigUint64(data, slack, 57)),
               sellRefillPeriod |-> Number(getBigUint64(data, slack, 65)),
               minDepositLamports |-> Number(getBigUint64(data, slack, 73)),
               claimsCount |-> getUint32(data, slack, 81),
               maxClaims |-> getUint32(data, slack, 85),
               active |-> byteAt(data, 89) # 0,
               nameSuffix |-> nameSuffixResult.value,
               imageUri |-> imageUriResult.value,
               marketName |-> marketNameResult.value,
               bump |-> byteAt(data, offset3)]]

\* the loop of discoverPromos over the accounts the query returned
RECURSIVE promoLoop(_, _)
promoLoop(i, promoAccounts_) ==
  IF i > Len(promoAccounts_) THEN <<>>
  ELSE LET p == parsePromo(promoAccounts_[i].pubkey, promoAccounts_[i].data,
                           promoAccounts_[i].slack)
       IN  (IF p.outcome = "record" THEN <<[pda |-> p.pda, config |-> p.config]>> ELSE <<>>)
             \o promoLoop(i + 1, promoAccounts_)

\* ------------------------------------------------------------------------
\* State
\* ------------------------------------------------------------------------

VARIABLES
  \* the chain
  positionAccounts,    \* PositionState accounts, in getProgramAccounts order
  keyStateAccounts,    \* KeyState accounts, in getProgramAccounts order
  assets,              \* asset address -> asset account
  rotations,           \* administrator rotations so far
  \* the signals of state.js
  positionPda, position, myPermissions, myKeyAsset, keyring,
  discoveredPositions, activePositionIndex,
  \* the discoverPosition call in flight
  pc, wallet, positions, keyStates, adminAssetInfos, best, bestPos, allFound,
  readAt,              \* the value of rotations when the call began
  \* promotions
  promoAccounts,       \* PromoConfig accounts, in getProgramAccounts order
  discoveredPromos,    \* the discoveredPromos signal
  \* the network and the caller
  batchFailures,       \* bulk queries and batch fetches that have failed so far
  other,               \* a second discoverPosition call in flight
  \* a decoder at work on one account
  input, decoded,
  \* the user interface
  modal,               \* the state of the ActionModal that is open
  handlers,            \* handleSubmit and handleConfirm in flight
  refreshing,          \* the refreshing signal
  refreshCalls         \* doRefresh and handleSwitchPosition calls in flight

chainVars == <<positionAccounts, keyStateAccounts, assets, rotations>>
signalVars == <<positionPda, position, myPermissions, myKeyAsset, keyring,
                discoveredPositions, activePositionIndex>>
runVars == <<pc, wallet, positions, keyStates, adminAssetInfos, best, bestPos, allFound,
             readAt>>
promoVars == <<promoAccounts, discoveredPromos>>
sideVars == <<batchFailures, other, input, decoded>>
uiVars == <<modal, handlers, refreshing, refreshCalls>>
vars == <<chainVars, signalVars, runVars, promoVars, sideVars, uiVars>>

NoPosition == [loaded |-> FALSE, adminAsset |-> NULL, authoritySeed |-> NULL]
NoBest == [permissions |-> -1, assetPubkey |-> NULL]

\* no second call is in flight
NoCall == [pc |-> "idle"]

\* no account is given to a decoder, and no decoder has returned
NoInput == [accounts |-> <<>>]
NoResult == [by |-> "none"]

\* no modal is open and no handler is in flight
Unmounted == [phase |-> "none"]
\* built and sent are the answers the handlers have had: of the validation and
\* the builder, and of the wallet and the node
NoHandler == [submit |-> "idle", confirm |-> "idle", built |-> "none", sent |-> "none"]

\* refreshing = signal(false), and no refresh has been asked for
UiAtRest ==
  /\ modal = Unmounted
  /\ handlers = NoHandler
  /\ refreshing = FALSE
  /\ refreshCalls = <<>>

\* ------------------------------------------------------------------------
\* The chain the client reads
\* ------------------------------------------------------------------------

\* PositionState: bytes 8..40 authority_seed, bytes 132..164 current_admin_asset;
\* the account's address is the position PDA of its authority seed
PositionState(seed) ==
  [pubkey |-> derivePositionPda(seed), authoritySeed |-> seed, currentAdminAsset |-> seed]

\* KeyState: bytes 8..40 authority_seed, bytes 40..72 asset
KeyState(seed, asset) ==
  [pubkey |-> deriveKeyStatePda(asset), authoritySeed |-> seed, asset |-> asset]

\* permission masks written as decimal strings
Digits9 == <<9>>
Digits25 == <<2, 5>>
Digits33 == <<3, 3>>
Digits63 == <<6, 3>>
Digits95 == <<9, 5>>
Digits223 == <<2, 2, 3>>
Digits256 == <<2, 5, 6>>

\* the first administrator asset of a position as create_position left it:
\* permissions = PRESET_ADMIN, or no attributes on a position of an early version
AdminAssetChoices(seed) ==
  {Asset(W1, Digits63, toBase58(seed)), Asset(W1, <<>>, <<>>),
   Asset(W2, Digits63, toBase58(seed))}

\* a delegated key: the KeyState's authority seed and the key asset's account
GoodKeyChoices ==
  {[seed |-> s, account |-> Asset(W1, d, toBase58(s))] :
     s \in {SeedA, SeedB},
     d \in {Digits9, Digits25, Digits33, Digits63, Digits95, Digits223}}

BadKeyChoices ==
  {[seed |-> SeedA, account |-> a] :
     a \in {NoAccount,
            [Asset(W1, Digits25, toBase58(SeedA)) EXCEPT !.key = 0],
            [Asset(W1, Digits25, toBase58(SeedA)) EXCEPT !.uaTag = 3],
            Asset(W2, Digits25, toBase58(SeedA)),
            Asset(W1, <<>>, toBase58(SeedA)),
            Asset(W1, Digits256, toBase58(SeedA)),
            Asset(W1, Digits25, <<>>),
            Asset(W1, Digits25, toBase58(Stray))}}

KeyChoices == GoodKeyChoices \cup BadKeyChoices

Init ==
  /\ \E a \in AdminAssetChoices(SeedA), b \in AdminAssetChoices(SeedB),
        k1 \in KeyChoices, k2 \in KeyChoices :
       /\ positionAccounts = <<PositionState(SeedA), PositionState(SeedB)>>
       /\ keyStateAccounts = <<KeyState(k1.seed, Key1), KeyState(k2.seed, Key2)>>
       /\ assets = [x \in {SeedA, SeedB, Key1, Key2} |->
                      IF x = SeedA THEN a
                      ELSE IF x = SeedB THEN b
                      ELSE IF x = Key1 THEN k1.account ELSE k2.account]
  /\ rotations = 0
  /\ positionPda = NULL
  /\ position = NoPosition
  /\ myPermissions = -1
  /\ myKeyAsset = NULL
  /\ keyring = <<>>
  /\ discoveredPositions = <<>>
  /\ activePositionIndex = 0
  /\ pc = "idle"
  /\ wallet = NULL
  /\ positions = <<>>
  /\ keyStates = <<>>
  /\ adminAssetInfos = <<>>
  /\ best = NoBest
  /\ bestPos = NULL
  /\ allFound = <<>>
  /\ readAt = 0
  /\ promoAccounts = <<>>
  /\ discoveredPromos = <<>>
  /\ batchFailures = 0
  /\ other = NoCall
  /\ UiAtRest
  /\ input = NoInput
  /\ decoded = NoResult

\* connection.getAccountInfo / getMultipleAccountsInfo: null for no account
getAccountInfo(pubkey) ==
  IF pubkey \in DOMAIN assets THEN assets[pubkey] ELSE NoAccount

getMultipleAccountsInfo(pubkeys) ==
  [i \in 1..Len(pubkeys) |-> getAccountInfo(pubkeys[i])]

\* ------------------------------------------------------------------------
\* execute_recovery of the on-chain program: an administrator rotation
\* ------------------------------------------------------------------------
\* A new administrator asset is minted to the recovery holder with
\* permissions = PRESET_ADMIN and position = authority_seed, the old
\* administrator asset is burned, current_admin_asset is set to the new
\* asset, and authority_seed is left as it is.

ExecuteRecovery(i, recoveryHolder) ==
  LET old == positionAccounts[i].currentAdminAsset
      new == <<"asset", old[2], rotations + 1>>
      seed == positionAccounts[i].authoritySeed
  IN  /\ rotations < MaxRotations
      /\ getAccountInfo(old).exists
      /\ assets' = [x \in DOMAIN assets \cup {new} |->
                      IF x = new THEN Asset(recoveryHolder, Digits63, toBase58(seed))
                      ELSE IF x = old THEN NoAccount
                      ELSE assets[x]]
      /\ positionAccounts' = [positionAccounts EXCEPT ![i].currentAdminAsset = new]
      /\ rotations' = rotations + 1
      /\ UNCHANGED <<uiVars, keyStateAccounts, signalVars, runVars, promoVars, sideVars>>

\* ------------------------------------------------------------------------
\* discoverPosition
\* ------------------------------------------------------------------------

\* a client that takes the administrator identity from bytes 132..164
positionAdminAsset_current(account) == account.currentAdminAsset

\* new PublicKey(data.slice(8, 40)) of a PositionState account
positionAdminAsset(account) == account.authoritySeed

\* the ranking test of both candidate loops
isBetter(old, permissions) ==
  IF old = NoBest THEN TRUE
  ELSE LET newPop == popcount(permissions)
           oldPop == popcount(old.permissions)
       IN  \/ newPop > oldPop
           \/ /\ newPop = oldPop
              /\ HasManage(permissions)
              /\ ~HasManage(old.permissions)

\* an administrator asset without the attribute counted as having no permissions
adminPermissions_zero(info) ==
  LET p == readPermissionsFromAssetData(info)
  IN  IF p = -1 THEN 0 ELSE p

\* readPermissionsFromAssetData(info.data) ?? PRESET_ADMIN
adminPermissions(info) ==
  LET p == readPermissionsFromAssetData(info)
  IN  IF p = -1 THEN PRESET_ADMIN ELSE p

\* adminAssetToPos.get(text): the position whose admin_asset has this text
adminAssetToPos(ps, text) ==
  LET hits == {i \in 1..Len(ps) : toBase58(ps[i].adminAsset) = text}
  IN  IF hits = {} THEN NULL
      ELSE ps[CHOOSE i \in hits : \A j \in hits : j <= i].posPda

\* one record of the candidate loops
record(st, posPda, permissions, assetPubkey, isAdmin, adminAsset) ==
  LET better == isBetter(st.best, permissions)
  IN  [best |-> IF better
                THEN [permissions |-> permissions, assetPubkey |-> assetPubkey]
                ELSE st.best,
       bestPos |-> IF better THEN posPda ELSE st.bestPos,
       allFound |-> Append(st.allFound,
                           [posPda |-> posPda, permissions |-> permissions,
                            assetPubkey |-> assetPubkey, isAdmin |-> isAdmin,
                            adminAsset |-> adminAsset])]

\* the continue statements of the administrator loop
adminSkip(info, w) ==
  \/ ~info.exists
  \/ ~parseMplCoreAsset(info).ok
  \/ parseMplCoreAsset(info).owner # w

\* Step 1: the loop over the positions' admin assets
RECURSIVE adminLoop(_, _, _, _, _)
adminLoop(i, st, ps, infos, w) ==
  IF i > Len(ps) THEN st
  ELSE IF adminSkip(infos[i], w) THEN adminLoop(i + 1, st, ps, infos, w)
  ELSE adminLoop(i + 1,
                 record(st, ps[i].posPda, adminPermissions(infos[i]),
                        ps[i].adminAsset, TRUE, ps[i].adminAsset),
                 ps, infos, w)

\* the delegated loop without its owner test
delegatedSkip_anyOwner(info, w, ps) ==
  \/ ~info.exists
  \/ ~parseMplCoreAsset(info).ok
  \/ readPermissionsFromAssetData(info) = -1
  \/ readPositionBindingFromAssetData(info) = <<>>
  \/ adminAssetToPos(ps, readPositionBindingFromAssetData(info)) = NULL

\* the delegated loop taking the owner from the bytes of an asset it could
\* not decode
delegatedSkip_undecoded(info, w, ps) ==
  \/ ~info.exists
  \/ info.owner # w
  \/ readPermissionsFromAssetData(info) = -1
  \/ readPositionBindingFromAssetData(info) = <<>>
  \/ adminAssetToPos(ps, readPositionBindingFromAssetData(info)) = NULL

\* the continue statements of the delegated loop
delegatedSkip(info, w, ps) ==
  \/ ~info.exists
  \/ ~parseMplCoreAsset(info).ok
  \/ parseMplCoreAsset(info).owner # w
  \/ readPermissionsFromAssetData(info) = -1
  \/ readPositionBindingFromAssetData(info) = <<>>
  \/ adminAssetToPos(ps, readPositionBindingFromAssetData(info)) = NULL

\* Step 2: the loop over the KeyState assets
RECURSIVE delegatedLoop(_, _, _, _, _, _)
delegatedLoop(i, st, kss, infos, w, ps) ==
  IF i > Len(kss) THEN st
  ELSE IF delegatedSkip(infos[i], w, ps) THEN delegatedLoop(i + 1, st, kss, infos, w, ps)
  ELSE delegatedLoop(i + 1,
                     record(st,
                            adminAssetToPos(ps, readPositionBindingFromAssetData(infos[i])),
                            readPermissionsFromAssetData(infos[i]),
                            kss[i].asset, FALSE,
                            PublicKey(readPositionBindingFromAssetData(infos[i]))),
                     kss, infos, w, ps)

\* whether Step 2 runs at all
checkDelegated(st, kss) == st.bestPos = NULL /\ Len(kss) > 0

\* resetPositionState()
resetPositionState ==
  /\ positionPda' = NULL
  /\ position' = NoPosition
  /\ myPermissions' = -1
  /\ myKeyAsset' = NULL
  /\ keyring' = <<>>
  /\ discoveredPositions' = <<>>
  /\ activePositionIndex' = 0

\* discoverPosition(connection, wallet) up to its first await
DiscoverStart(w) ==
  /\ pc \in {"idle", "done", "failed"}
  /\ resetPositionState
  /\ wallet' = w
  /\ positions' = <<>>
  /\ keyStates' = <<>>
  /\ adminAssetInfos' = <<>>
  /\ best' = NoBest
  /\ bestPos' = NULL
  /\ allFound' = <<>>
  /\ readAt' = rotations
  /\ pc' = "accounts"
  /\ UNCHANGED <<uiVars, chainVars, promoVars, sideVars>>

\* the two getProgramAccounts results arrive: parse them and ask for the
\* positions' admin assets
ProgramAccountsFetched ==
  /\ pc = "accounts"
  /\ positions' = [i \in 1..Len(positionAccounts) |->
                     [posPda |-> positionAccounts[i].pubkey,
                      adminAsset |-> positionAdminAsset(positionAccounts[i])]]
  /\ keyStates' = [i \in 1..Len(keyStateAccounts) |->
                     [pubkey |-> keyStateAccounts[i].pubkey,
                      asset |-> keyStateAccounts[i].asset,
                      authoritySeed |-> keyStateAccounts[i].authoritySeed]]
  /\ pc' = IF Len(positionAccounts) = 0 /\ Len(keyStateAccounts) = 0
           THEN "done" ELSE "adminInfos"
  /\ UNCHANGED <<uiVars, chainVars, signalVars, wallet, adminAssetInfos, best, bestPos, allFound,
                 readAt, promoVars, sideVars>>

\* lines 255-263: nothing found, or the best key is published
publish(st) ==
  IF st.bestPos = NULL \/ st.best = NoBest
  THEN /\ pc' = "done"
       /\ UNCHANGED signalVars
  ELSE /\ positionPda' = st.bestPos
       /\ myPermissions' = st.best.permissions
       /\ myKeyAsset' = st.best.assetPubkey
       /\ pc' = "posInfo"
       /\ UNCHANGED <<position, keyring, discoveredPositions, activePositionIndex>>

\* the admin assets arrive: Step 1, then Step 2 is asked for or skipped
AdminInfosFetched ==
  /\ pc = "adminInfos"
  /\ LET infos == getMultipleAccountsInfo([i \in 1..Len(positions) |-> positions[i].adminAsset])
         st == adminLoop(1, [best |-> NoBest, bestPos |-> NULL, allFound |-> <<>>],
                         positions, infos, wallet)
     IN  /\ adminAssetInfos' = infos
         /\ best' = st.best
         /\ bestPos' = st.bestPos
         /\ allFound' = st.allFound
         /\ IF checkDelegated(st, keyStates)
            THEN pc' = "delegatedInfos" /\ UNCHANGED signalVars
            ELSE publish(st)
  /\ UNCHANGED <<uiVars, chainVars, wallet, positions, keyStates, readAt, promoVars, sideVars>>

\* the KeyState assets arrive: Step 2
DelegatedInfosFetched ==
  /\ pc = "delegatedInfos"
  /\ LET infos == getMultipleAccountsInfo([i \in 1..Len(keyStates) |-> keyStates[i].asset])
         st == delegatedLoop(1, [best |-> best, bestPos |-> bestPos, allFound |-> allFound],
                             keyStates, infos, wallet, positions)
     IN  /\ best' = st.best
         /\ bestPos' = st.bestPos
         /\ allFound' = st.allFound
         /\ publish(st)
  /\ UNCHANGED <<uiVars, chainVars, wallet, positions, keyStates, adminAssetInfos, readAt,
                 promoVars, sideVars>>

\* connection.getAccountInfo(bestPos): the PositionState account at an address
positionAccountAt(pubkey) ==
  {i \in 1..Len(positionAccounts) : positionAccounts[i].pubkey = pubkey}

\* the position account arrives: position.value
PositionInfoFetched ==
  /\ pc = "posInfo"
  /\ IF positionAccountAt(bestPos) = {}
     THEN position' = position
     ELSE LET data == positionAccounts[CHOOSE i \in positionAccountAt(bestPos) : TRUE]
          IN  position' = [loaded |-> TRUE,
                           adminAsset |-> positionAdminAsset(data),
                           authoritySeed |-> positionAdminAsset(data)]
  /\ pc' = "roster"
  /\ UNCHANGED <<uiVars, chainVars, positionPda, myPermissions, myKeyAsset, keyring,
                 discoveredPositions, activePositionIndex,
                 wallet, positions, keyStates, adminAssetInfos, best, bestPos, allFound,
                 readAt, promoVars, sideVars>>

\* the admin entry of the keyring
adminRosterEntry(ps, ainfos, w, posAdminAsset) ==
  LET idx == {i \in 1..Len(ps) : ps[i].adminAsset = posAdminAsset}
      adminIdx == CHOOSE i \in idx : \A j \in idx : i <= j
  IN  IF idx = {} THEN <<>>
      ELSE IF ~ainfos[adminIdx].exists THEN <<>>
      ELSE LET parsed == parseMplCoreAsset(ainfos[adminIdx])
           IN  <<[mint |-> posAdminAsset, permissions |-> PRESET_ADMIN,
                  heldBySigner |-> parsed.ok /\ parsed.owner = w]>>

\* the delegated entries of the keyring
RECURSIVE delegatedRoster(_, _, _, _)
delegatedRoster(i, kss, infos, w) ==
  IF i > Len(kss) THEN <<>>
  ELSE IF ~infos[i].exists \/ readPermissionsFromAssetData(infos[i]) = -1
       THEN delegatedRoster(i + 1, kss, infos, w)
  ELSE LET parsed == parseMplCoreAsset(infos[i])
       IN  <<[mint |-> kss[i].asset,
              permissions |-> readPermissionsFromAssetData(infos[i]),
              heldBySigner |-> parsed.ok /\ parsed.owner = w]>>
             \o delegatedRoster(i + 1, kss, infos, w)

\* keyStates.filter(ks => ks.authoritySeed.equals(posAdminAsset))
RECURSIVE positionKeyStates(_, _, _)
positionKeyStates(i, kss, posAdminAsset) ==
  IF i > Len(kss) THEN <<>>
  ELSE (IF kss[i].authoritySeed = posAdminAsset THEN <<kss[i]>> ELSE <<>>)
         \o positionKeyStates(i + 1, kss, posAdminAsset)

\* enriched.findIndex(f => f.posPda.equals(bestPos)), -1 when there is none
findIndex(found, pos) ==
  LET hits == {i \in 1..Len(found) : found[i].posPda = pos}
  IN  IF hits = {} THEN -1 ELSE (CHOOSE i \in hits : \A j \in hits : i <= j) - 1

\* the keyring is built and the discovered positions are published
RosterFetched ==
  /\ pc = "roster"
  /\ IF ~position.loaded
     THEN keyring' = <<>>
     ELSE LET pks == positionKeyStates(1, keyStates, position.adminAsset)
              infos == getMultipleAccountsInfo([i \in 1..Len(pks) |-> pks[i].asset])
          IN  keyring' = adminRosterEntry(positions, adminAssetInfos, wallet,
                                          position.adminAsset)
                           \o delegatedRoster(1, pks, infos, wallet)
  /\ discoveredPositions' = allFound
  /\ activePositionIndex' = findIndex(allFound, bestPos)
  /\ pc' = "promos"
  /\ UNCHANGED <<uiVars, chainVars, positionPda, position, myPermissions, myKeyAsset,
                 wallet, positions, keyStates, adminAssetInfos, best, bestPos, allFound,
                 readAt, promoVars, sideVars>>

\* the query without its memcmp filter
getPromoAccounts_noMemcmp(authoritySeed) ==
  SelectSeq(promoAccounts, LAMBDA a : Len(a.data) = PROMO_CONFIG_SIZE)

\* getProgramAccounts with the filters of discoverPromos: dataSize, and
\* memcmp of the authority seed at offset 8
getPromoAccounts(authoritySeed) ==
  SelectSeq(promoAccounts,
            LAMBDA a : /\ Len(a.data) = PROMO_CONFIG_SIZE
                       /\ slice(a.data, 8, 40) = toBuffer(authoritySeed))

\* discoverPromos: the PromoConfig accounts of the active position arrive
PromosFetched ==
  /\ pc = "promos"
  /\ discoveredPromos' = IF ~position.loaded THEN <<>>
                         ELSE promoLoop(1, getPromoAccounts(position.authoritySeed))
  /\ pc' = "done"
  /\ UNCHANGED <<uiVars, chainVars, signalVars, wallet, positions, keyStates, adminAssetInfos,
                 best, bestPos, allFound, readAt, promoAccounts, sideVars>>

Next ==
  \/ \E w \in Wallets : DiscoverStart(w)
  \/ ProgramAccountsFetched
  \/ AdminInfosFetched
  \/ DelegatedInfosFetched
  \/ PositionInfoFetched
  \/ RosterFetched
  \/ PromosFetched
  \/ \E i \in 1..Len(positionAccounts), w \in Wallets : ExecuteRecovery(i, w)

Spec == Init /\ [][Next]_vars

TypeOK ==
  /\ pc \in {"idle", "accounts", "adminInfos", "delegatedInfos", "posInfo", "roster",
            "promos", "done", "failed"}
  /\ rotations \in 0..MaxRotations
  /\ myPermissions \in -1..255

\* ------------------------------------------------------------------------
\* Promotions on the chain, and fetches that fail
\* ------------------------------------------------------------------------

\* fetches that fail outright in one behaviour
MaxFailures == 2

\* the 8-byte type tag the on-chain program writes in front of an account;
\* the client never reads it, so all that matters here is that the tags of
\* different account types differ
Schemas == <<"PositionState", "KeyState", "PromoConfig", "ProtocolConfig">>

AccountTag(schema) == <<codeOf(Schemas, schema), 7, 7, 7, 7, 7, 7, 7>>

\* a Borsh string: 4-byte little-endian length, then the bytes
borshString(chars) == <<Len(chars), 0, 0, 0>> \o chars

PadTo(bytes, n) == bytes \o Zeros(n - Len(bytes))

\* 64-bit values, least significant byte first
U64_zero == Zeros(8)
U64_one == <<1, 0, 0, 0, 0, 0, 0, 0>>
U64_1000 == <<232, 3, 0, 0, 0, 0, 0, 0>>
U64_2p53m1 == <<255, 255, 255, 255, 255, 255, 31, 0>>
U64_2p53 == <<0, 0, 0, 0, 0, 0, 32, 0>>
U64_2p53p1 == <<1, 0, 0, 0, 0, 0, 32, 0>>
U64_2p53p3 == <<3, 0, 0, 0, 0, 0, 32, 0>>
U64_max == <<255, 255, 255, 255, 255, 255, 255, 255>>

\* the data of a PromoConfig account as the program serialises it
EncodePromo(tag, seed, amount, nameSuffix, imageUri, marketName) ==
  PadTo(tag \o toBuffer(seed) \o <<PRESET_DEPOSITOR>>
          \o amount \o U64_1000 \o amount \o U64_1000 \o amount
          \o <<2, 0, 0, 0>> \o <<5, 0, 0, 0>> \o <<1>>
          \o borshString(nameSuffix) \o borshString(imageUri) \o borshString(marketName)
          \o <<254>>,
        PROMO_CONFIG_SIZE)

Promo(name, seed, amount) ==
  [pubkey |-> <<"promo", name, 0>>,
   data |-> EncodePromo(AccountTag("PromoConfig"), seed, amount,
                        <<80, 49>>, <<104, 116, 116, 112>>, <<83, 79, 76>>),
   slack |-> 0]

\* a chain with promotions for both positions
PromoAccountsOnChain ==
  <<Promo("p1", SeedA, U64_1000), Promo("p2", SeedB, U64_one), Promo("p3", SeedA, U64_zero)>>

InitRpc ==
  /\ \E a \in AdminAssetChoices(SeedA), b \in AdminAssetChoices(SeedB),
        d1 \in {Digits9, Digits223}, o2 \in Wallets, s2 \in {SeedA, SeedB} :
       /\ positionAccounts = <<PositionState(SeedA), PositionState(SeedB)>>
       /\ keyStateAccounts = <<KeyState(SeedA, Key1), KeyState(s2, Key2)>>
       /\ assets = [x \in {SeedA, SeedB, Key1, Key2} |->
                      IF x = SeedA THEN a
                      ELSE IF x = SeedB THEN b
                      ELSE IF x = Key1 THEN Asset(W1, d1, toBase58(SeedA))
                      ELSE Asset(o2, Digits25, toBase58(s2))]
  /\ rotations = 0
  /\ positionPda = NULL
  /\ position = NoPosition
  /\ myPermissions = -1
  /\ myKeyAsset = NULL
  /\ keyring = <<>>
  /\ discoveredPositions = <<>>
  /\ activePositionIndex = 0
  /\ pc = "idle"
  /\ wallet = NULL
  /\ positions = <<>>
  /\ keyStates = <<>>
  /\ adminAssetInfos = <<>>
  /\ best = NoBest
  /\ bestPos = NULL
  /\ allFound = <<>>
  /\ readAt = 0
  /\ promoAccounts = PromoAccountsOnChain
  /\ discoveredPromos = <<>>
  /\ batchFailures = 0
  /\ other = NoCall
  /\ UiAtRest
  /\ input = NoInput
  /\ decoded = NoResult

\* one of the awaited fetches of Step 1 or Step 2 rejects: discoverPosition
\* rejects and doRefresh logs 'Refresh error'
CandidateFetchFailed ==
  /\ pc \in {"accounts", "adminInfos", "delegatedInfos"}
  /\ batchFailures < MaxFailures
  /\ batchFailures' = batchFailures + 1
  /\ pc' = "failed"
  /\ UNCHANGED <<uiVars, chainVars, signalVars, wallet, positions, keyStates, adminAssetInfos,
                 best, bestPos, allFound, readAt, promoVars, other, input, decoded>>

\* getAccountInfo(bestPos) rejects: caught, 'Failed to load position' is
\* logged and the function goes on without position.value
PositionInfoFailed ==
  /\ pc = "posInfo"
  /\ pc' = "roster"
  /\ UNCHANGED <<uiVars, chainVars, signalVars, wallet, positions, keyStates, adminAssetInfos,
                 best, bestPos, allFound, readAt, promoVars, sideVars>>

\* getMultipleAccountsInfo(delegatedPks) of the keyring rejects: discoverPosition
\* rejects before keyring and discoveredPositions are assigned
RosterFetchFailed ==
  /\ pc = "roster"
  /\ position.loaded
  /\ Len(positionKeyStates(1, keyStates, position.adminAsset)) > 0
  /\ batchFailures < MaxFailures
  /\ batchFailures' = batchFailures + 1
  /\ pc' = "failed"
  /\ UNCHANGED <<uiVars, chainVars, signalVars, wallet, positions, keyStates, adminAssetInfos,
                 best, bestPos, allFound, readAt, promoVars, other, input, decoded>>

\* getProgramAccounts of discoverPromos rejects: caught, 'Promo discovery
\* failed' is logged and discoveredPromos is set to []
PromosFetchFailed ==
  /\ pc = "promos"
  /\ position.loaded
  /\ batchFailures < MaxFailures
  /\ batchFailures' = batchFailures + 1
  /\ discoveredPromos' = <<>>
  /\ pc' = "done"
  /\ UNCHANGED <<uiVars, chainVars, signalVars, wallet, positions, keyStates, adminAssetInfos,
                 best, bestPos, allFound, readAt, promoAccounts, other, input, decoded>>

NextRpc ==
  \/ \E w \in Wallets : DiscoverStart(w)
  \/ ProgramAccountsFetched
  \/ AdminInfosFetched
  \/ DelegatedInfosFetched
  \/ PositionInfoFetched
  \/ RosterFetched
  \/ PromosFetched
  \/ CandidateFetchFailed
  \/ PositionInfoFailed
  \/ RosterFetchFailed
  \/ PromosFetchFailed

SpecRpc == InitRpc /\ [][NextRpc]_vars

\* ------------------------------------------------------------------------
\* Two discoverPosition calls in flight
\* ------------------------------------------------------------------------
\* doRefresh has no guard against a refresh that is still running: the
\* effect on wallet connect, the effect on cluster change and the refresh
\* button each call it. Two calls interleave at their awaits; each has its
\* own local variables, and both assign the same signals.

\* the local variables of the call that is running
Locals ==
  [pc |-> pc, wallet |-> wallet, positions |-> positions, keyStates |-> keyStates,
   adminAssetInfos |-> adminAssetInfos, best |-> best, bestPos |-> bestPos,
   allFound |-> allFound, readAt |-> readAt]

\* doRefresh is called while a discoverPosition call awaits a fetch: the
\* first call stays suspended and the second runs up to its first await
SecondCallStart(w) ==
  /\ pc \notin {"idle", "done", "failed"}
  /\ other.pc = "idle"
  /\ other' = Locals
  /\ resetPositionState
  /\ wallet' = w
  /\ positions' = <<>>
  /\ keyStates' = <<>>
  /\ adminAssetInfos' = <<>>
  /\ best' = NoBest
  /\ bestPos' = NULL
  /\ allFound' = <<>>
  /\ readAt' = rotations
  /\ pc' = "accounts"
  /\ UNCHANGED <<uiVars, chainVars, promoVars, batchFailures, input, decoded>>

\* the fetch the suspended call awaits resolves before the running call's:
\* the suspended call is the one that continues
Resume ==
  /\ other.pc \notin {"idle", "done", "failed"}
  /\ other' = Locals
  /\ pc' = other.pc
  /\ wallet' = other.wallet
  /\ positions' = other.positions
  /\ keyStates' = other.keyStates
  /\ adminAssetInfos' = other.adminAssetInfos
  /\ best' = other.best
  /\ bestPos' = other.bestPos
  /\ allFound' = other.allFound
  /\ readAt' = other.readAt
  /\ UNCHANGED <<uiVars, chainVars, signalVars, promoVars, batchFailures, input, decoded>>

NextConc ==
  \/ \E w \in Wallets : DiscoverStart(w)
  \/ \E w \in Wallets : SecondCallStart(w)
  \/ Resume
  \/ ProgramAccountsFetched
  \/ AdminInfosFetched
  \/ DelegatedInfosFetched
  \/ PositionInfoFetched
  \/ RosterFetched
  \/ PromosFetched

SpecConc == InitRpc /\ [][NextConc]_vars

\* ------------------------------------------------------------------------
\* The decoders at work on account data
\* ------------------------------------------------------------------------
\* An account given to a decoder: the bytes and the slack of their
\* ArrayBuffer, with a note of what was written (schema, amount) and of how
\* the bytes differ from what the on-chain program writes (damage).

\* a rate-limit bucket: four u64
EncodeBucket(capacity, refillPeriod, level, lastUpdate) ==
  capacity \o refillPeriod \o level \o lastUpdate

\* KeyState: discriminator, authority_seed, asset, bump, sell_bucket,
\* borrow_bucket
EncodeKeyState(tag, seed, asset, amount) ==
  tag \o toBuffer(seed) \o toBuffer(asset) \o <<255>>
      \o EncodeBucket(amount, U64_1000, amount, U64_one)
      \o EncodeBucket(U64_1000, amount, U64_zero, amount)

\* PositionState: discriminator, authority_seed, position_pda, market_config,
\* deposited_nav, user_debt, max_reinvest_spread_bps, last_admin_activity,
\* bump, authority_bump, current_admin_asset, and the rest of its 205 bytes
EncodePosition(tag, seed, depositedNav, userDebt) ==
  PadTo(tag \o toBuffer(seed) \o toBuffer(<<"position", "A", 0>>)
            \o toBuffer(<<"authority", "A", 0>>)
            \o depositedNav \o userDebt \o <<0, 0>> \o U64_1000 \o <<254, 253>>
            \o toBuffer(seed),
        POSITION_SIZE)

\* ProtocolConfig: discriminator, admin, collection, bump
EncodeProtocolConfig(tag, admin, collection) ==
  tag \o toBuffer(admin) \o toBuffer(collection) \o <<255>>

\* the least number of bytes a decoder asks of an account of the schema
MinLength(schema) ==
  CASE schema = "PositionState" -> POSITION_SIZE
    [] schema = "KeyState" -> KEY_STATE_SIZE
    [] schema = "PromoConfig" -> PROMO_CONFIG_SIZE
    [] schema = "ProtocolConfig" -> PROTOCOL_CONFIG_SIZE

\* the type tag of some other schema
ForeignTag(schema) ==
  IF schema = "KeyState" THEN AccountTag("PositionState") ELSE AccountTag("KeyState")

Encode(schema, tag, amount) ==
  CASE schema = "PositionState" -> EncodePosition(tag, SeedA, amount, amount)
    [] schema = "KeyState" -> EncodeKeyState(tag, SeedA, Key1, amount)
    [] schema = "PromoConfig" ->
         EncodePromo(tag, SeedA, amount, <<80, 49>>, <<104, 116, 116, 112>>, <<83, 79, 76>>)
    [] schema = "ProtocolConfig" -> EncodeProtocolConfig(tag, W1, SeedB)

\* a length prefix of 65535, which no account holds
LongPrefix == <<255, 255, 0, 0>>

Damages == {"none", "short", "tag", "prefix"}

AccountData(schema, damage, amount) ==
  CASE damage = "none" -> Encode(schema, AccountTag(schema), amount)
    [] damage = "short" ->
         SubSeq(Encode(schema, AccountTag(schema), amount), 1, MinLength(schema) - 1)
    [] damage = "tag" -> Encode(schema, ForeignTag(schema), amount)
    [] damage = "prefix" ->
         Put(Encode(schema, AccountTag(schema), amount), PromoStringsOffset, LongPrefix)

TestAccount(schema, damage, amount, name, slack) ==
  [schema |-> schema, damage |-> damage, amount |-> amount,
   pubkey |-> <<"promo", name, 0>>,
   data |-> AccountData(schema, damage, amount), slack |-> slack]

Amounts == {U64_zero, U64_1000, U64_2p53m1, U64_2p53, U64_2p53p1, U64_2p53p3, U64_max}

\* bytes of the ArrayBuffer behind the data: none, or eight
Slacks == {0, 8}

DecodeInputs ==
  {<<TestAccount(s, d, v, "p1", k)>> :
     s \in {"PositionState", "KeyState"}, d \in {"none", "short", "tag"},
     v \in Amounts, k \in Slacks}
  \cup {<<TestAccount("ProtocolConfig", d, U64_zero, "p1", k)>> :
          d \in {"none", "short", "tag"}, k \in Slacks}
  \cup {<<TestAccount("PromoConfig", d1, v, "p1", 0),
          TestAccount("PromoConfig", d2, U64_one, "p2", 0),
          TestAccount("PromoConfig", d3, U64_1000, "p3", 0)>> :
          d1 \in Damages, d2 \in Damages, d3 \in Damages,
          v \in {U64_1000, U64_2p53p1, U64_max}}

InitDecode ==
  /\ positionAccounts = <<>>
  /\ keyStateAccounts = <<>>
  /\ assets = [x \in {SeedA} |-> NoAccount]
  /\ rotations = 0
  /\ positionPda = NULL
  /\ position = NoPosition
  /\ myPermissions = -1
  /\ myKeyAsset = NULL
  /\ keyring = <<>>
  /\ discoveredPositions = <<>>
  /\ activePositionIndex = 0
  /\ pc = "idle"
  /\ wallet = NULL
  /\ positions = <<>>
  /\ keyStates = <<>>
  /\ adminAssetInfos = <<>>
  /\ best = NoBest
  /\ bestPos = NULL
  /\ allFound = <<>>
  /\ readAt = 0
  /\ promoAccounts = <<>>
  /\ discoveredPromos = <<>>
  /\ batchFailures = 0
  /\ other = NoCall
  /\ UiAtRest
  /\ \E accounts \in DecodeInputs : input = [accounts |-> accounts]
  /\ decoded = NoResult

\* the account a single-account decoder is given
Given == input.accounts[1]

Decoding(schema) ==
  /\ decoded = NoResult
  /\ Len(input.accounts) > 0
  /\ Given.schema = schema
  /\ UNCHANGED <<uiVars, chainVars, signalVars, runVars, promoVars, batchFailures, other, input>>

\* the loop over the PositionState accounts of discoverPosition
DecodePositionEntry ==
  /\ Decoding("PositionState")
  /\ decoded' = [by |-> "parsePositionEntry",
                 result |-> parsePositionEntry(Given.data, Given.slack)]

\* the position load of discoverPosition and of selectActivePosition
DecodePositionData ==
  /\ Decoding("PositionState")
  /\ decoded' = [by |-> "parsePositionData",
                 result |-> parsePositionData(Given.data, Given.slack)]

\* the loop over the KeyState accounts of discoverPosition
DecodeKeyState ==
  /\ Decoding("KeyState")
  /\ decoded' = [by |-> "parseKeyState",
                 result |-> parseKeyStateEntry(Given.data, Given.slack)]

\* checkProtocol
DecodeProtocolConfig ==
  /\ Decoding("ProtocolConfig")
  /\ decoded' = [by |-> "checkProtocol",
                 result |-> parseProtocolConfig(Given.data, Given.slack)]

\* the loop of discoverPromos over the accounts it was given
DecodePromos ==
  /\ Decoding("PromoConfig")
  /\ decoded' = [by |-> "discoverPromos", result |-> promoLoop(1, input.accounts)]

NextDecode ==
  \/ DecodePositionEntry
  \/ DecodePositionData
  \/ DecodeKeyState
  \/ DecodeProtocolConfig
  \/ DecodePromos

SpecDecode == InitDecode /\ [][NextDecode]_vars

\* ------------------------------------------------------------------------
\* MPL-Core asset accounts as bytes
\* ------------------------------------------------------------------------
\* AssetV1: key (1), owner (32), update authority tag (1) and, for the tags
\* Address and Collection, its address (32); name and uri as Borsh strings;
\* seq (1, None); then the plugin header (9), the Attributes plugin (tag,
\* count, and key and value of each attribute as Borsh strings) and the
\* plugin registry.

\* 'permissions' and 'position' as UTF-8
PermissionsName == <<112, 101, 114, 109, 105, 115, 115, 105, 111, 110, 115>>
PositionName == <<112, 111, 115, 105, 116, 105, 111, 110>>

\* data.length < 66 of parseMplCoreAsset, and the start of the attribute scan
ASSET_MIN_SIZE == 66
SCAN_START == 66

\* valueLen > 200
MAX_VALUE_LEN == 200

\* parseMplCoreAsset(data) on the bytes
parseMplCoreAssetData(data) ==
  IF Len(data) < ASSET_MIN_SIZE THEN [outcome |-> "null"]
  ELSE IF byteAt(data, 0) # 1 THEN [outcome |-> "null"]
  ELSE LET uaTag == byteAt(data, 33)
       IN  IF uaTag \in {1, 2}
           THEN [outcome |-> "record", owner |-> PublicKeyOfBytes(slice(data, 1, 33)),
                 updateAuthority |-> PublicKeyOfBytes(slice(data, 34, 66))]
           ELSE IF uaTag # 0 THEN [outcome |-> "null"]
           ELSE [outcome |-> "record", owner |-> PublicKeyOfBytes(slice(data, 1, 33)),
                 updateAuthority |-> NULL]

\* the number of bytes of the key at i + 4 that the comparison loop reads:
\* up to and with the first that differs
comparedBytes(data, i, needleBytes) ==
  LET differ == {j \in 0..(Len(needleBytes) - 1) : data[i + 4 + j + 1] # needleBytes[j + 1]}
  IN  IF differ = {} THEN Len(needleBytes)
      ELSE (CHOOSE j \in differ : \A k \in differ : j <= k) + 1

\* a key that is at least as long as the name
keyLengthMatches_atLeast(data, slack, i, needleBytes) ==
  getUint32(data, slack, i) >= Len(needleBytes)

\* keyLen !== needleBytes.length
keyLengthMatches(data, slack, i, needleBytes) ==
  getUint32(data, slack, i) = Len(needleBytes)

\* the comparison of the bytes of the key with those of the name
keyMatches(data, i, needleBytes) ==
  comparedBytes(data, i, needleBytes) = Len(needleBytes)

\* one turn of the loop of readAttributeFromAssetData at offset i: whether
\* it returns the value
returnsAt(data, slack, needleBytes, i) ==
  LET valueOffset == i + 4 + Len(needleBytes)
  IN  /\ keyLengthMatches(data, slack, i, needleBytes)
      /\ keyMatches(data, i, needleBytes)
      /\ valueOffset + 4 <= Len(data)
      /\ LET valueLen == getUint32(data, slack, valueOffset)
         IN  ~(valueLen = 0 \/ valueLen > MAX_VALUE_LEN
               \/ valueOffset + 4 + valueLen > Len(data))

\* the highest offset the turn at offset i reads
readsUpTo(data, slack, needleBytes, i) ==
  LET valueOffset == i + 4 + Len(needleBytes)
  IN  IF ~keyLengthMatches(data, slack, i, needleBytes) THEN i + 3
      ELSE IF ~keyMatches(data, i, needleBytes)
           THEN i + 3 + comparedBytes(data, i, needleBytes)
      ELSE IF valueOffset + 4 > Len(data) THEN valueOffset - 1
      ELSE IF returnsAt(data, slack, needleBytes, i)
           THEN valueOffset + 3 + getUint32(data, slack, valueOffset)
      ELSE valueOffset + 3

\* the least element of a set of numbers that is not empty
Least(S) == CHOOSE x \in S : \A y \in S : x <= y

\* the loop of readAttributeFromAssetData: the turns it makes are those from
\* offset 66 up to the loop bound, the break or the first turn that returns;
\* hi is the highest offset read
scanAttribute(data, slack, needleBytes) ==
  LET n == Len(needleBytes)
      bound == {i \in SCAN_START..Len(data) : i < Len(data) - n - 8}
      breaks == {i \in bound : i + 4 + n + 4 > Len(data)}
      before == IF breaks = {} THEN bound ELSE {i \in bound : i < Least(breaks)}
      returns == {i \in before : returnsAt(data, slack, needleBytes, i)}
      turns == IF returns = {} THEN before ELSE {i \in before : i <= Least(returns)}
      reads == {readsUpTo(data, slack, needleBytes, i) : i \in turns} \cup {-1}
      hi == CHOOSE x \in reads : \A y \in reads : y <= x
  IN  IF returns = {} THEN [found |-> FALSE, hi |-> hi]
      ELSE LET at == Least(returns)
               valueOffset == at + 4 + n
           IN  [found |-> TRUE, at |-> at,
                value |-> decodeText(slice(data, valueOffset + 4,
                            valueOffset + 4 + getUint32(data, slack, valueOffset))),
                hi |-> hi]

\* readAttributeFromAssetData(data, attributeName) on the bytes
readAttributeFromData(data, slack, needleBytes) == scanAttribute(data, slack, needleBytes)

\* a decimal digit of a character, 10 for any other character
digitOf(char) == IF char \in 48..57 THEN char - 48 ELSE 10

\* readPermissionsFromAssetData(data) on the bytes, -1 for null
readPermissionsFromData(data, slack) ==
  LET r == readAttributeFromData(data, slack, PermissionsName)
      parsed == parseInt([k \in 1..Len(r.value) |-> digitOf(r.value[k])])
  IN  IF ~r.found THEN -1
      ELSE IF parsed >= 0 /\ parsed <= 255 THEN parsed ELSE -1

\* an attribute as the Attributes plugin holds it
Attribute(key, value) == [key |-> key, value |-> value]

RECURSIVE EncodeAttributes(_)
EncodeAttributes(attrs) ==
  IF attrs = <<>> THEN <<>>
  ELSE borshString(Head(attrs).key) \o borshString(Head(attrs).value)
         \o EncodeAttributes(Tail(attrs))

\* the data of an asset account as MPL-Core serialises it
EncodeAsset(key, owner, uaTag, name, uri, attrs) ==
  <<key>> \o toBuffer(owner) \o <<uaTag>>
    \o (IF uaTag \in {1, 2} THEN toBuffer(Stray) ELSE <<>>)
    \o borshString(name) \o borshString(uri) \o <<0>>
    \o <<3>> \o U64_1000
    \o <<6>> \o <<Len(attrs), 0, 0, 0>> \o EncodeAttributes(attrs)
    \o <<4, 1, 0, 0, 0, 6, 2>> \o U64_1000

\* the value of the first attribute of the name, <<>> when there is none
attributeValue(attrs, name) ==
  LET hits == {k \in 1..Len(attrs) : attrs[k].key = name}
  IN  IF hits = {} THEN <<>>
      ELSE decodeText(attrs[CHOOSE k \in hits : \A m \in hits : k <= m].value)

\* texts: '9', '25', '63', an address, 'Key', 'note', 'permission', 'xpermissions',
\* 'permissionsX'
Text9 == <<57>>
Text25 == <<50, 53>>
Text63 == <<54, 51>>
TextAddress == <<72, 97, 114, 100, 105, 103>>
TextKey == <<75, 101, 121>>
TextNote == <<110, 111, 116, 101>>
TextPermission == <<112, 101, 114, 109, 105, 115, 115, 105, 111, 110>>
TextXPermissions == <<120>> \o PermissionsName
TextPermissionsX == PermissionsName \o <<88>>
TextUri == [k \in 1..40 |-> 104]

\* bytes that read as an attribute permissions = '63'
LookAlike == borshString(PermissionsName) \o borshString(Text63)

AssetNames == {<<>>, TextKey, TextUri, LookAlike}

AttributeLists ==
  {<<>>,
   <<Attribute(PermissionsName, Text9), Attribute(PositionName, TextAddress)>>,
   <<Attribute(PositionName, TextAddress), Attribute(PermissionsName, Text25)>>,
   <<Attribute(TextPermission, Text63), Attribute(PermissionsName, Text9),
     Attribute(PositionName, TextAddress)>>,
   <<Attribute(TextXPermissions, Text63), Attribute(PermissionsName, Text9)>>,
   <<Attribute(TextPermissionsX, Text63), Attribute(PositionName, TextAddress)>>,
   <<Attribute(TextNote, LookAlike), Attribute(PermissionsName, Text9),
     Attribute(PositionName, TextAddress)>>}

TestAsset(key, uaTag, name, uri, attrs, slack) ==
  [schema |-> "Asset", key |-> key, owner |-> W1, uaTag |-> uaTag, name |-> name,
   uri |-> uri, attrs |-> attrs, pubkey |-> Key1,
   data |-> EncodeAsset(key, W1, uaTag, name, uri, attrs), slack |-> slack]

AssetInputs ==
  {<<TestAsset(key, uaTag, name, uri, attrs, k)>> :
     key \in {0, 1, 5}, uaTag \in {0, 1, 2, 3}, name \in AssetNames,
     uri \in {<<>>, TextUri}, attrs \in AttributeLists, k \in Slacks}

InitAsset ==
  /\ positionAccounts = <<>>
  /\ keyStateAccounts = <<>>
  /\ assets = [x \in {SeedA} |-> NoAccount]
  /\ rotations = 0
  /\ positionPda = NULL
  /\ position = NoPosition
  /\ myPermissions = -1
  /\ myKeyAsset = NULL
  /\ keyring = <<>>
  /\ discoveredPositions = <<>>
  /\ activePositionIndex = 0
  /\ pc = "idle"
  /\ wallet = NULL
  /\ positions = <<>>
  /\ keyStates = <<>>
  /\ adminAssetInfos = <<>>
  /\ best = NoBest
  /\ bestPos = NULL
  /\ allFound = <<>>
  /\ readAt = 0
  /\ promoAccounts = <<>>
  /\ discoveredPromos = <<>>
  /\ batchFailures = 0
  /\ other = NoCall
  /\ UiAtRest
  /\ \E accounts \in AssetInputs : input = [accounts |-> accounts]
  /\ decoded = NoResult

\* parseMplCoreAsset(info.data)
ParseAsset ==
  /\ Decoding("Asset")
  /\ decoded' = [by |-> "parseMplCoreAsset", result |-> parseMplCoreAssetData(Given.data)]

\* readPermissionsFromAssetData(info.data)
ReadPermissions ==
  /\ Decoding("Asset")
  /\ decoded' = [by |-> "readPermissionsFromAssetData",
                 scan |-> readAttributeFromData(Given.data, Given.slack, PermissionsName),
                 needleBytes |-> PermissionsName,
                 result |-> readPermissionsFromData(Given.data, Given.slack)]

\* readPositionBindingFromAssetData(info.data)
ReadPositionBinding ==
  /\ Decoding("Asset")
  /\ decoded' = [by |-> "readPositionBindingFromAssetData",
                 scan |-> readAttributeFromData(Given.data, Given.slack, PositionName),
                 needleBytes |-> PositionName,
                 result |-> LET r == readAttributeFromData(Given.data, Given.slack,
                                                           PositionName)
                            IN  IF r.found THEN r.value ELSE <<>>]

NextAsset ==
  \/ ParseAsset
  \/ ReadPermissions
  \/ ReadPositionBinding

SpecAsset == InitAsset /\ [][NextAsset]_vars

\* ------------------------------------------------------------------------
\* The rate bucket evaluator (rateLimits.js)
\* ------------------------------------------------------------------------

\* the chain and the signals of a session in which no discovery has run
AtRest ==
  /\ positionAccounts = <<>>
  /\ keyStateAccounts = <<>>
  /\ assets = [x \in {SeedA} |-> NoAccount]
  /\ rotations = 0
  /\ positionPda = NULL
  /\ position = NoPosition
  /\ myPermissions = -1
  /\ myKeyAsset = NULL
  /\ keyring = <<>>
  /\ discoveredPositions = <<>>
  /\ activePositionIndex = 0
  /\ pc = "idle"
  /\ wallet = NULL
  /\ positions = <<>>
  /\ keyStates = <<>>
  /\ adminAssetInfos = <<>>
  /\ best = NoBest
  /\ bestPos = NULL
  /\ allFound = <<>>
  /\ readAt = 0
  /\ promoAccounts = <<>>
  /\ discoveredPromos = <<>>
  /\ batchFailures = 0
  /\ other = NoCall
  /\ UiAtRest

\* tokens and slots are small numbers here; the code holds them as doubles and
\* multiplies as BigInt, which is exact for them
MaxAmount == 4
MaxPeriod == 4
MaxSlot == 8
MaxLastUpdate == 3

\* the slots counted from slot 0, whatever the last update
elapsed_fromZero(bucket, currentSlot) == currentSlot

\* Math.max(0, currentSlot - bucket.lastUpdate)
elapsed(bucket, currentSlot) ==
  IF currentSlot - bucket.lastUpdate > 0 THEN currentSlot - bucket.lastUpdate ELSE 0

\* the product kept in three bits
refill_narrow(bucket, currentSlot) ==
  IF elapsed(bucket, currentSlot) >= bucket.refillPeriod
  THEN bucket.capacity
  ELSE ((bucket.capacity * elapsed(bucket, currentSlot)) % 8) \div bucket.refillPeriod

\* the refill: the whole capacity once the period has passed, else
\* Number(BigInt(capacity) * BigInt(elapsed) / BigInt(refillPeriod))
refill(bucket, currentSlot) ==
  IF elapsed(bucket, currentSlot) >= bucket.refillPeriod
  THEN bucket.capacity
  ELSE (bucket.capacity * elapsed(bucket, currentSlot)) \div bucket.refillPeriod

\* the level and the refill, not held to the capacity
bucketAvailableNow_noCap(bucket, currentSlot) ==
  IF bucket.capacity = 0 THEN 0
  ELSE bucket.level + refill(bucket, currentSlot)

bucketAvailableNow(bucket, currentSlot) ==
  IF bucket.capacity = 0 THEN 0
  ELSE Min(bucket.capacity, bucket.level + refill(bucket, currentSlot))

\* the buckets of a KeyState account: one that is not configured is all zero,
\* a configured one holds at most its capacity
Buckets ==
  {[capacity |-> c, refillPeriod |-> p, level |-> l, lastUpdate |-> u] :
     c \in 0..MaxAmount, p \in 0..MaxPeriod, l \in 0..MaxAmount, u \in 0..MaxLastUpdate}

BucketInputs ==
  {<<[schema |-> "RateBucket", bucket |-> b]>> : b \in {x \in Buckets : x.level <= x.capacity}}

InitBucket ==
  /\ AtRest
  /\ \E accounts \in BucketInputs : input = [accounts |-> accounts]
  /\ decoded = NoResult

\* getKeyAllowance: the slot comes from the node, the bucket from the account;
\* the allowance is computed anew on every call and the bucket is not changed
BucketAvailableNow ==
  \E currentSlot \in 0..MaxSlot :
    /\ Len(input.accounts) > 0
    /\ Given.schema = "RateBucket"
    /\ decoded.by \in {"none", "bucketAvailableNow"}
    /\ decoded' = [by |-> "bucketAvailableNow",
                   currentSlot |-> currentSlot,
                   result |-> bucketAvailableNow(Given.bucket, currentSlot),
                   before |-> IF decoded.by = "none" THEN <<>>
                              ELSE <<[currentSlot |-> decoded.currentSlot,
                                      result |-> decoded.result]>>]
    /\ UNCHANGED <<uiVars, chainVars, signalVars, runVars, promoVars, batchFailures, other,
                   input>>

NextBucket == BucketAvailableNow

SpecBucket == InitBucket /\ [][NextBucket]_vars

\* ------------------------------------------------------------------------
\* Switching the active position (selectActivePosition, discovery.js)
\* ------------------------------------------------------------------------

\* selectActivePosition(index, connection) up to its first await: an index
\* outside the list throws before anything is written
SelectActivePosition(index) ==
  /\ pc = "done"
  /\ other.pc \in {"idle", "returned"}
  /\ index >= 0 /\ index < Len(discoveredPositions)
  /\ LET selected == discoveredPositions[index + 1]
     IN  /\ activePositionIndex' = index
         /\ positionPda' = selected.posPda
         /\ myPermissions' = selected.permissions
         /\ myKeyAsset' = selected.assetPubkey
         /\ other' = [pc |-> "selectPosInfo", index |-> index, posPda |-> selected.posPda]
  /\ UNCHANGED <<uiVars, chainVars, position, keyring, discoveredPositions, runVars, promoVars,
                 batchFailures, input, decoded>>

\* the position account arrives: position.value is written when there is one
SelectPositionInfoFetched ==
  /\ other.pc = "selectPosInfo"
  /\ IF positionAccountAt(other.posPda) = {}
     THEN position' = position
     ELSE LET data == positionAccounts[CHOOSE i \in positionAccountAt(other.posPda) : TRUE]
          IN  position' = [loaded |-> TRUE,
                           adminAsset |-> positionAdminAsset(data),
                           authoritySeed |-> positionAdminAsset(data)]
  /\ other' = [other EXCEPT !.pc = "selectPromos"]
  /\ UNCHANGED <<uiVars, chainVars, positionPda, myPermissions, myKeyAsset, keyring,
                 discoveredPositions, activePositionIndex, runVars, promoVars,
                 batchFailures, input, decoded>>

\* discoverPromos at the end of selectActivePosition; the call returns
SelectPromosFetched ==
  /\ other.pc = "selectPromos"
  /\ discoveredPromos' = IF ~position.loaded THEN <<>>
                         ELSE promoLoop(1, getPromoAccounts(position.authoritySeed))
  /\ other' = [other EXCEPT !.pc = "returned"]
  /\ UNCHANGED <<uiVars, chainVars, signalVars, runVars, promoAccounts, batchFailures, input,
                 decoded>>

\* one discovery, then the user switches between the discovered positions
NextSwitch ==
  \/ other = NoCall /\ \E w \in Wallets : DiscoverStart(w)
  \/ other = NoCall /\ ProgramAccountsFetched
  \/ other = NoCall /\ AdminInfosFetched
  \/ other = NoCall /\ DelegatedInfosFetched
  \/ other = NoCall /\ PositionInfoFetched
  \/ other = NoCall /\ RosterFetched
  \/ other = NoCall /\ PromosFetched
  \/ \E index \in 0..1 : SelectActivePosition(index)
  \/ SelectPositionInfoFetched
  \/ SelectPromosFetched

SpecSwitch == Init /\ [][NextSwitch]_vars

\* ------------------------------------------------------------------------
\* The action bar (state.js, ActionBar.jsx)
\* ------------------------------------------------------------------------

PERM_BUY == 1
PERM_SELL == 2
PERM_BORROW == 4
PERM_REPAY == 8
PERM_REINVEST == 16
PERM_LIMITED_SELL == 64
PERM_LIMITED_BORROW == 128

\* a & b on masks
RECURSIVE bitAnd(_, _)
bitAnd(a, b) ==
  IF a = 0 \/ b = 0 THEN 0
  ELSE (a % 2) * (b % 2) + 2 * bitAnd(a \div 2, b \div 2)

\* any mask but 0 passes
hasPerm_anyBit(perm) == myPermissions # -1 /\ myPermissions # 0

\* p !== null && (p & perm) !== 0
hasPerm(perm) == myPermissions # -1 /\ bitAnd(myPermissions, perm) # 0

\* the computed signals; cpiReady is mayflowerInitialized
canBuy(cpiReady) == cpiReady /\ hasPerm(PERM_BUY)

canSell(cpiReady) == cpiReady /\ (hasPerm(PERM_SELL) \/ hasPerm(PERM_LIMITED_SELL))

canBorrow(cpiReady) == cpiReady /\ (hasPerm(PERM_BORROW) \/ hasPerm(PERM_LIMITED_BORROW))

canRepay(cpiReady, userDebt) ==
  IF ~cpiReady THEN FALSE
  ELSE IF ~hasPerm(PERM_REPAY) THEN FALSE
  ELSE position.loaded /\ userDebt > 0

canReinvest(cpiReady) == cpiReady /\ hasPerm(PERM_REINVEST)

canAuthorize == hasPerm(PERM_MANAGE_KEYS) /\ positionPda # NULL

canRevoke == hasPerm(PERM_MANAGE_KEYS) /\ Len(keyring) > 1

\* the buttons of the action bar that are shown and not disabled
enabledActions(cpiReady, userDebt) ==
  IF positionPda = NULL THEN {}
  ELSE {action \in {"buy", "sell", "borrow", "repay", "reinvest", "authorize", "revoke"} :
          CASE action = "buy" -> canBuy(cpiReady)
            [] action = "sell" -> canSell(cpiReady)
            [] action = "borrow" -> canBorrow(cpiReady)
            [] action = "repay" -> canRepay(cpiReady, userDebt)
            [] action = "reinvest" -> canReinvest(cpiReady)
            [] action = "authorize" -> canAuthorize
            [] action = "revoke" -> canRevoke}

\* a keyring of n entries, the administrator key first
KeyringOf(n) ==
  [k \in 1..n |-> [mint |-> IF k = 1 THEN SeedA ELSE Key1,
                   permissions |-> IF k = 1 THEN PRESET_ADMIN ELSE PRESET_DEPOSITOR,
                   heldBySigner |-> k = 1]]

\* the signals the action bar reads: as resetPositionState leaves them, or a
\* published position with any mask readPermissionsFromAssetData can return
InitBar ==
  /\ positionAccounts = <<>>
  /\ keyStateAccounts = <<>>
  /\ assets = [x \in {SeedA} |-> NoAccount]
  /\ rotations = 0
  /\ \/ /\ positionPda = NULL
        /\ position = NoPosition
        /\ myPermissions = -1
        /\ myKeyAsset = NULL
        /\ keyring = <<>>
     \/ \E mask \in 0..255, loaded \in BOOLEAN, n \in 0..2 :
          /\ positionPda = derivePositionPda(SeedA)
          /\ position = IF loaded
                        THEN [loaded |-> TRUE, adminAsset |-> SeedA, authoritySeed |-> SeedA]
                        ELSE NoPosition
          /\ myPermissions = mask
          /\ myKeyAsset = SeedA
          /\ keyring = KeyringOf(n)
  /\ discoveredPositions = <<>>
  /\ activePositionIndex = 0
  /\ pc = "idle"
  /\ wallet = NULL
  /\ positions = <<>>
  /\ keyStates = <<>>
  /\ adminAssetInfos = <<>>
  /\ best = NoBest
  /\ bestPos = NULL
  /\ allFound = <<>>
  /\ readAt = 0
  /\ promoAccounts = <<>>
  /\ discoveredPromos = <<>>
  /\ batchFailures = 0
  /\ other = NoCall
  /\ UiAtRest
  /\ input = NoInput
  /\ decoded = NoResult

\* ActionBar renders; mayflowerInitialized and position.userDebt are signals
\* of their own
RenderActionBar ==
  \E mayflowerInitialized \in BOOLEAN, userDebt \in {0, 1000} :
    /\ decoded' = [by |-> "ActionBar",
                   mayflowerInitialized |-> mayflowerInitialized,
                   userDebt |-> userDebt,
                   enabled |-> enabledActions(mayflowerInitialized, userDebt)]
    /\ UNCHANGED <<uiVars, chainVars, signalVars, runVars, promoVars, batchFailures, other,
                   input>>

NextBar == RenderActionBar

SpecBar == InitBar /\ [][NextBar]_vars

\* ------------------------------------------------------------------------
\* The action modal (ActionModal.jsx)
\* ------------------------------------------------------------------------

\* the actions the dashboard opens the modal with
ModalActions ==
  {"initProtocol", "createPosition", "buy", "sell", "borrow", "repay", "reinvest",
   "authorize", "revoke", "createPromo", "togglePromo", "editPromoMaxClaims"}

noFormActions == {"initProtocol", "reinvest", "togglePromo"}

\* the cases of handleSubmit that return before the builder is called
ValidatedActions == ModalActions \ {"initProtocol", "reinvest"}

\* setActiveAction(action): the modal mounts with its useState defaults
OpenModal(action) ==
  /\ modal = Unmounted
  /\ modal' = [action |-> action, phase |-> "form", pending |-> "null",
               sending |-> FALSE, result |-> "null", error |-> "null",
               didAutoSubmit |-> FALSE, effect |-> "pending"]
  /\ handlers' = NoHandler
  /\ UNCHANGED <<chainVars, signalVars, runVars, promoVars, sideVars, refreshing,
                 refreshCalls>>

\* onClose: setActiveAction(null) unmounts the modal; what a handler in flight
\* sets afterwards is set on no component
CloseModal ==
  /\ modal # Unmounted
  /\ modal.effect = "ran"
  /\ modal' = Unmounted
  /\ handlers' = NoHandler
  /\ UNCHANGED <<chainVars, signalVars, runVars, promoVars, sideVars, refreshing,
                 refreshCalls>>

\* handleSubmit up to its first await: a check that fails sets the error and
\* returns to the form, else the builder is awaited
handleSubmit(m, valid) ==
  IF ~valid /\ m.action \in ValidatedActions
  THEN /\ modal' = [m EXCEPT !.error = "invalid", !.phase = "form"]
       /\ handlers' = [handlers EXCEPT !.built = "invalid"]
  ELSE /\ modal' = [m EXCEPT !.error = "null", !.phase = "building"]
       /\ handlers' = [handlers EXCEPT !.submit = "building", !.built = "none"]

\* the Continue button of a form
Continue ==
  /\ modal.phase = "form"
  /\ modal.effect = "ran"
  /\ modal.action \notin noFormActions
  /\ \E valid \in BOOLEAN : handleSubmit(modal, valid)
  /\ UNCHANGED <<chainVars, signalVars, runVars, promoVars, sideVars, refreshing,
                 refreshCalls>>

\* the effect that runs when the modal has mounted: it submits an action
\* without a form, once
AutoSubmit ==
  /\ modal.phase = "form"
  /\ modal.effect = "pending"
  /\ IF modal.action \in noFormActions /\ ~modal.didAutoSubmit
     THEN \E valid \in BOOLEAN :
            handleSubmit([modal EXCEPT !.didAutoSubmit = TRUE, !.effect = "ran"], valid)
     ELSE modal' = [modal EXCEPT !.effect = "ran"] /\ UNCHANGED handlers
  /\ UNCHANGED <<chainVars, signalVars, runVars, promoVars, sideVars, refreshing,
                 refreshCalls>>

\* the Retry button of an action without a form
Retry ==
  /\ modal.phase = "form"
  /\ modal.effect = "ran"
  /\ modal.action \in noFormActions
  /\ modal.error # "null"
  /\ \E valid \in BOOLEAN : handleSubmit([modal EXCEPT !.didAutoSubmit = FALSE], valid)
  /\ UNCHANGED <<chainVars, signalVars, runVars, promoVars, sideVars, refreshing,
                 refreshCalls>>

\* the builder returns: setPending(built), setPhase('confirm')
Built ==
  /\ modal # Unmounted
  /\ handlers.submit = "building"
  /\ modal' = [modal EXCEPT !.pending = "built", !.phase = "confirm"]
  /\ handlers' = [handlers EXCEPT !.submit = "idle", !.built = "ok"]
  /\ UNCHANGED <<chainVars, signalVars, runVars, promoVars, sideVars, refreshing,
                 refreshCalls>>

\* the builder throws: the catch of handleSubmit
BuildFailed ==
  /\ modal # Unmounted
  /\ handlers.submit = "building"
  /\ modal' = [modal EXCEPT !.error = "message", !.phase = "form"]
  /\ handlers' = [handlers EXCEPT !.submit = "idle", !.built = "failed"]
  /\ UNCHANGED <<chainVars, signalVars, runVars, promoVars, sideVars, refreshing,
                 refreshCalls>>

\* the Confirm button, disabled while sending: handleConfirm up to its first await
Confirm ==
  /\ modal.phase = "confirm"
  /\ modal.pending # "null"
  /\ ~modal.sending
  /\ modal' = [modal EXCEPT !.sending = TRUE, !.error = "null"]
  /\ handlers' = [handlers EXCEPT !.confirm = "sending", !.sent = "none"]
  /\ UNCHANGED <<chainVars, signalVars, runVars, promoVars, sideVars, refreshing,
                 refreshCalls>>

\* the blockhash, the signature, the send and the confirmation have all come:
\* onRefresh is awaited
TxConfirmed ==
  /\ modal # Unmounted
  /\ handlers.confirm = "sending"
  /\ handlers' = [handlers EXCEPT !.confirm = "onRefresh", !.sent = "confirmed"]
  /\ UNCHANGED <<chainVars, signalVars, runVars, promoVars, sideVars, modal, refreshing,
                 refreshCalls>>

\* onRefresh returns: setResult, setPhase('result')
Refreshed ==
  /\ modal # Unmounted
  /\ handlers.confirm = "onRefresh"
  /\ modal' = [modal EXCEPT !.result = "sig", !.phase = "result"]
  /\ handlers' = [handlers EXCEPT !.confirm = "idle"]
  /\ UNCHANGED <<chainVars, signalVars, runVars, promoVars, sideVars, refreshing,
                 refreshCalls>>

\* a catch that shows the result screen
SendFailed_showsResult ==
  /\ modal # Unmounted
  /\ handlers.confirm = "sending"
  /\ modal' = [modal EXCEPT !.error = "message", !.sending = FALSE, !.phase = "result"]
  /\ handlers' = [handlers EXCEPT !.confirm = "idle", !.sent = "failed"]
  /\ UNCHANGED <<chainVars, signalVars, runVars, promoVars, sideVars, refreshing,
                 refreshCalls>>

\* one of the awaited calls throws: the catch of handleConfirm
SendFailed ==
  /\ modal # Unmounted
  /\ handlers.confirm = "sending"
  /\ modal' = [modal EXCEPT !.error = "message", !.sending = FALSE]
  /\ handlers' = [handlers EXCEPT !.confirm = "idle", !.sent = "failed"]
  /\ UNCHANGED <<chainVars, signalVars, runVars, promoVars, sideVars, refreshing,
                 refreshCalls>>

InitModal ==
  /\ AtRest
  /\ input = NoInput
  /\ decoded = NoResult

NextModal ==
  \/ \E action \in ModalActions : OpenModal(action)
  \/ CloseModal
  \/ Continue
  \/ AutoSubmit
  \/ Retry
  \/ Built
  \/ BuildFailed
  \/ Confirm
  \/ TxConfirmed
  \/ Refreshed
  \/ SendFailed

SpecModal == InitModal /\ [][NextModal]_vars

\* ------------------------------------------------------------------------
\* The refreshing signal (App.jsx)
\* ------------------------------------------------------------------------

\* calls in flight at once
MaxCalls == 3

\* the awaits of doRefresh and of handleSwitchPosition, in order
StepsOf(by) ==
  IF by = "doRefresh"
  THEN <<"loadMarkets", "checkProtocol", "discoverPosition", "refreshMayflowerState">>
  ELSE <<"selectActivePosition", "refreshMayflowerState">>

\* the calls in flight without the k-th
Without(calls, k) == SubSeq(calls, 1, k - 1) \o SubSeq(calls, k + 1, Len(calls))

\* doRefresh with a wallet connected, up to its first await: from an effect
\* (wallet connect, cluster change), the Refresh button or a modal's onRefresh
DoRefresh ==
  /\ Len(refreshCalls) < MaxCalls
  /\ refreshing' = TRUE
  /\ refreshCalls' = Append(refreshCalls, [by |-> "doRefresh", at |-> 1])
  /\ UNCHANGED <<chainVars, signalVars, runVars, promoVars, sideVars, modal, handlers>>

\* handleSwitchPosition up to its first await: the position selector
HandleSwitchPosition ==
  /\ Len(refreshCalls) < MaxCalls
  /\ refreshing' = TRUE
  /\ refreshCalls' = Append(refreshCalls, [by |-> "handleSwitchPosition", at |-> 1])
  /\ UNCHANGED <<chainVars, signalVars, runVars, promoVars, sideVars, modal, handlers>>

\* an awaited step of a call returns: the next step is awaited, or the call
\* is past its try and sets refreshing to false
StepReturned(k) ==
  /\ k \in 1..Len(refreshCalls)
  /\ IF refreshCalls[k].at < Len(StepsOf(refreshCalls[k].by))
     THEN /\ refreshCalls' = [refreshCalls EXCEPT ![k].at = @ + 1]
          /\ UNCHANGED refreshing
     ELSE /\ refreshCalls' = Without(refreshCalls, k)
          /\ refreshing' = FALSE
  /\ UNCHANGED <<chainVars, signalVars, runVars, promoVars, sideVars, modal, handlers>>

\* an awaited step of a call throws: the catch logs, and refreshing is set to
\* false
StepThrew(k) ==
  /\ k \in 1..Len(refreshCalls)
  /\ refreshCalls' = Without(refreshCalls, k)
  /\ refreshing' = FALSE
  /\ UNCHANGED <<chainVars, signalVars, runVars, promoVars, sideVars, modal, handlers>>

InitRefresh ==
  /\ AtRest
  /\ input = NoInput
  /\ decoded = NoResult

NextRefresh ==
  \/ DoRefresh
  \/ HandleSwitchPosition
  \/ \E k \in 1..MaxCalls : StepReturned(k)
  \/ \E k \in 1..MaxCalls : StepThrew(k)

SpecRefresh == InitRefresh /\ [][NextRefresh]_vars

\* ------------------------------------------------------------------------
\* The candidates of the target wallet, as section 4.4 of the specification
\* defines them, on the chain as it is
\* ------------------------------------------------------------------------

\* the call has returned and the chain is as it was when the call began
Quiescent == pc = "done" /\ readAt = rotations

\* the published result of the call: the selected key and the discovered list
Selected == myKeyAsset

\* position i's current administrator asset is held by the wallet
AdminHeld(i) ==
  LET info == getAccountInfo(positionAccounts[i].currentAdminAsset)
  IN  /\ info.exists /\ info.key = 1 /\ info.uaTag \in {0, 1, 2}
      /\ info.owner = wallet

AdminMask(i) ==
  LET info == getAccountInfo(positionAccounts[i].currentAdminAsset)
  IN  IF info.permissions = <<>> THEN PRESET_ADMIN ELSE parseInt(info.permissions)

\* the position a KeyState's asset is bound to, 0 when it is none
BoundPosition(j) ==
  LET info == getAccountInfo(keyStateAccounts[j].asset)
      hits == {i \in 1..Len(positionAccounts) :
                 info.position = toBase58(positionAccounts[i].authoritySeed)}
  IN  IF hits = {} THEN 0 ELSE CHOOSE i \in hits : TRUE

\* KeyState j's asset is a delegated key of the wallet
DelegatedHeld(j) ==
  LET info == getAccountInfo(keyStateAccounts[j].asset)
  IN  /\ info.exists /\ info.key = 1 /\ info.uaTag \in {0, 1, 2}
      /\ info.owner = wallet
      /\ info.permissions # <<>>
      /\ parseInt(info.permissions) \in 0..255
      /\ info.position # <<>>
      /\ BoundPosition(j) # 0

DelegatedMask(j) == parseInt(getAccountInfo(keyStateAccounts[j].asset).permissions)

RECURSIVE AdminCandidates(_)
AdminCandidates(i) ==
  IF i > Len(positionAccounts) THEN <<>>
  ELSE (IF AdminHeld(i)
        THEN <<[posPda |-> positionAccounts[i].pubkey, permissions |-> AdminMask(i),
                assetPubkey |-> positionAccounts[i].currentAdminAsset, isAdmin |-> TRUE]>>
        ELSE <<>>) \o AdminCandidates(i + 1)

RECURSIVE DelegatedCandidates(_)
DelegatedCandidates(j) ==
  IF j > Len(keyStateAccounts) THEN <<>>
  ELSE (IF DelegatedHeld(j)
        THEN <<[posPda |-> positionAccounts[BoundPosition(j)].pubkey,
                permissions |-> DelegatedMask(j),
                assetPubkey |-> keyStateAccounts[j].asset, isAdmin |-> FALSE]>>
        ELSE <<>>) \o DelegatedCandidates(j + 1)

\* administrator-path candidates first, then delegated-path candidates
Candidates == AdminCandidates(1) \o DelegatedCandidates(1)

\* the two keys of the ranking
SameRank(c, d) ==
  /\ popcount(c.permissions) = popcount(d.permissions)
  /\ HasManage(c.permissions) = HasManage(d.permissions)

\* ------------------------------------------------------------------------
\* C1 to C10
\* ------------------------------------------------------------------------

\* C1: once discovery has returned, the selected key is never a candidate
\* with fewer permission bits than another candidate of the wallet: 0b00011001
\* beats 0b00100001 in either order, and more bits win in general.
C1_MoreBitsWin ==
  Quiescent =>
    \A x \in 1..Len(Candidates), y \in 1..Len(Candidates) :
      popcount(Candidates[x].permissions) > popcount(Candidates[y].permissions)
        => Selected # Candidates[y].assetPubkey

\* C2: between two candidates with the same number of permission bits of
\* which exactly one has the manage bit, the selected key is never the one
\* without it, whichever comes first.
C2_ManageBitWins ==
  Quiescent =>
    \A x \in 1..Len(Candidates), y \in 1..Len(Candidates) :
      /\ popcount(Candidates[x].permissions) = popcount(Candidates[y].permissions)
      /\ HasManage(Candidates[x].permissions)
      /\ ~HasManage(Candidates[y].permissions)
      => Selected # Candidates[y].assetPubkey

\* C3: of two candidates that tie on bit count and on the manage bit the one
\* discovered first wins, so an administrator key wins the tie against a
\* delegated key: the selected key is never the later of two tied candidates.
C3_FirstWinsTie ==
  Quiescent =>
    \A x \in 1..Len(Candidates), y \in 1..Len(Candidates) :
      x < y /\ SameRank(Candidates[x], Candidates[y])
        => Selected # Candidates[y].assetPubkey

\* the entries of the discovered list for position i
EntriesFor(i) ==
  {e \in 1..Len(discoveredPositions) :
     discoveredPositions[e].posPda = positionAccounts[i].pubkey}

\* the candidates of the wallet for position i
CandidatesFor(i) ==
  {x \in 1..Len(Candidates) : Candidates[x].posPda = positionAccounts[i].pubkey}

\* candidate c ranks strictly above candidate d
Beats(c, d) ==
  \/ popcount(c.permissions) > popcount(d.permissions)
  \/ /\ popcount(c.permissions) = popcount(d.permissions)
     /\ HasManage(c.permissions)
     /\ ~HasManage(d.permissions)

\* the highest-ranked candidate for position i, the earliest of equals
BestFor(i) ==
  CHOOSE x \in CandidatesFor(i) :
    \A y \in CandidatesFor(i) :
      /\ ~Beats(Candidates[y], Candidates[x])
      /\ y < x => Beats(Candidates[x], Candidates[y])

\* C4: a wallet that holds the administrator asset of a position (mask 0x3F)
\* and a delegated key bound to the same position (mask 0x09) gets that
\* position exactly once, with the administrator key.
C4_AdminAndDelegatedOnce ==
  Quiescent =>
    \A i \in 1..Len(positionAccounts), j \in 1..Len(keyStateAccounts) :
      /\ AdminHeld(i) /\ AdminMask(i) = PRESET_ADMIN
      /\ DelegatedHeld(j) /\ BoundPosition(j) = i /\ DelegatedMask(j) = PRESET_DEPOSITOR
      => /\ Cardinality(EntriesFor(i)) = 1
         /\ \A e \in EntriesFor(i) :
              /\ discoveredPositions[e].isAdmin
              /\ discoveredPositions[e].assetPubkey = positionAccounts[i].currentAdminAsset

\* C5: every position for which the wallet has a candidate has exactly one
\* entry in the discovered list, and the entry's key is the highest-ranked
\* candidate for that position.
C5_OneBestEntryPerPosition ==
  Quiescent =>
    \A i \in 1..Len(positionAccounts) :
      CandidatesFor(i) # {}
        => /\ Cardinality(EntriesFor(i)) = 1
           /\ \A e \in EntriesFor(i) :
                discoveredPositions[e].assetPubkey = Candidates[BestFor(i)].assetPubkey

\* C6: the position of every delegated key of the wallet is in the discovered
\* list, whatever the administrator path found.
C6_DelegatedPathIndependent ==
  Quiescent =>
    \A j \in 1..Len(keyStateAccounts) :
      DelegatedHeld(j) => EntriesFor(BoundPosition(j)) # {}

\* C7: after a rotation the holder of the current administrator asset is
\* discovered as the position's administrator, with that asset, and the asset
\* named by authoritySeed is not reported as the administrator key.
C7_CurrentAdminDiscovered ==
  Quiescent =>
    \A i \in 1..Len(positionAccounts) :
      positionAccounts[i].currentAdminAsset # positionAccounts[i].authoritySeed
        => /\ AdminHeld(i)
                => \E e \in EntriesFor(i) :
                     /\ discoveredPositions[e].isAdmin
                     /\ discoveredPositions[e].assetPubkey
                          = positionAccounts[i].currentAdminAsset
           /\ \A e \in EntriesFor(i) :
                discoveredPositions[e].isAdmin
                  => discoveredPositions[e].assetPubkey
                       = positionAccounts[i].currentAdminAsset

\* the administrator asset position i was created with
OriginalAdminAsset(i) == Seeds[i]

\* C8: whatever rotations a position has gone through, the position address
\* and the signing-authority address the client derives for it are those
\* derived from the asset it was created with, and the text of that asset
\* still resolves to the position in the client's lookup.
C8_DerivedAddressesStable ==
  /\ \A i \in 1..Len(positionAccounts) :
       /\ derivePositionPda(positionAdminAsset(positionAccounts[i]))
            = derivePositionPda(OriginalAdminAsset(i))
       /\ derivePositionPda(positionAdminAsset(positionAccounts[i]))
            = positionAccounts[i].pubkey
       /\ deriveProgramPda(positionAdminAsset(positionAccounts[i]))
            = deriveProgramPda(OriginalAdminAsset(i))
  /\ \A i \in 1..Len(positions) :
       adminAssetToPos(positions, toBase58(OriginalAdminAsset(i)))
         = derivePositionPda(OriginalAdminAsset(i))
  /\ position.loaded =>
       \E i \in 1..Len(positionAccounts) :
         /\ positionPda = positionAccounts[i].pubkey
         /\ derivePositionPda(position.adminAsset) = positionPda
         /\ deriveProgramPda(position.adminAsset) = deriveProgramPda(OriginalAdminAsset(i))

\* a rotated position was discovered through a delegated key and loaded
C8_Witness ==
  /\ Quiescent
  /\ position.loaded
  /\ \E i \in 1..Len(positionAccounts) :
       /\ positionAccounts[i].currentAdminAsset # positionAccounts[i].authoritySeed
       /\ positionPda = positionAccounts[i].pubkey
       /\ \E e \in EntriesFor(i) : ~discoveredPositions[e].isAdmin

AdminWithoutAttribute(i) ==
  /\ adminAssetInfos[i].exists
  /\ adminAssetInfos[i].key = 1
  /\ adminAssetInfos[i].uaTag \in {0, 1, 2}
  /\ adminAssetInfos[i].owner = wallet
  /\ adminAssetInfos[i].permissions = <<>>

RemoveAt(s, i) == SubSeq(s, 1, i - 1) \o SubSeq(s, i + 1, Len(s))

\* the fetched asset record is missing or does not decode
FailingRecord(info) == ~info.exists \/ info.key # 1 \/ info.uaTag \notin {0, 1, 2}

\* Step 1 and Step 2 of discoverPosition over the given records; allPs are
\* the positions a position attribute is resolved against
Ranking(ps, ainfos, kss, kinfos, w, allPs) ==
  LET st == adminLoop(1, [best |-> NoBest, bestPos |-> NULL, allFound |-> <<>>],
                      ps, ainfos, w)
  IN  IF checkDelegated(st, kss) THEN delegatedLoop(1, st, kss, kinfos, w, allPs) ELSE st

\* C11: once both candidate loops have run, the ranking (best key, its
\* position and the list of candidates) is the one the loops produce with any
\* one missing or undecodable asset record taken out of their input, on the
\* administrator path and on the delegated path alike; and a run that found
\* no candidate has returned normally with nothing published.
C11_FailingRecordRemovesOnlyItself ==
  (pc \in {"posInfo", "roster", "promos", "done"} /\ Len(adminAssetInfos) > 0) =>
    LET kinfos == getMultipleAccountsInfo([j \in 1..Len(keyStates) |-> keyStates[j].asset])
        result == [best |-> best, bestPos |-> bestPos, allFound |-> allFound]
    IN  /\ \A i \in 1..Len(positions) :
             FailingRecord(adminAssetInfos[i]) =>
               Ranking(RemoveAt(positions, i), RemoveAt(adminAssetInfos, i),
                       keyStates, kinfos, wallet, positions) = result
        /\ \A j \in 1..Len(keyStates) :
             FailingRecord(kinfos[j]) =>
               Ranking(positions, adminAssetInfos,
                       RemoveAt(keyStates, j), RemoveAt(kinfos, j), wallet, positions) = result
        /\ allFound = <<>> =>
             /\ pc = "done"
             /\ positionPda = NULL /\ myKeyAsset = NULL /\ discoveredPositions = <<>>

\* a key asset that does not decode was passed over, an administrator asset
\* was missing, and the run still published a position
C11_Witness ==
  /\ pc = "done"
  /\ discoveredPositions # <<>>
  /\ \E i \in 1..Len(positions) : ~adminAssetInfos[i].exists
  /\ \E j \in 1..Len(keyStates) :
       LET info == getAccountInfo(keyStates[j].asset)
       IN  info.exists /\ FailingRecord(info) /\ info.owner = wallet

\* everything a discovery call publishes
Published == <<positionPda, position, myPermissions, myKeyAsset, keyring,
               discoveredPositions, activePositionIndex, discoveredPromos>>

\* neither a ranking nor a roster is published
NothingPublished ==
  /\ positionPda = NULL /\ position = NoPosition
  /\ myPermissions = -1 /\ myKeyAsset = NULL
  /\ keyring = <<>> /\ discoveredPositions = <<>>

\* C12: a step in which a bulk query or a batch fetch fails outright ends the
\* call as failed, with no ranking and no roster published and with the
\* promotion list left as it was.
C12_BatchFailureFailsTheAttempt ==
  [][batchFailures' # batchFailures =>
       /\ pc' = "failed"
       /\ NothingPublished'
       /\ discoveredPromos' = discoveredPromos]_vars

\* C14: a step that leaves the call unfinished, or failed, changes nothing
\* of what is published; what is published changes only in the step that
\* completes a call.
C14_NothingPublishedBeforeCompletion ==
  [][pc' \notin {"idle", "done"} => Published' = Published]_vars

\* what discoverPosition(w) publishes when it runs alone on the chain as it
\* is: the signals after resetPositionState and the assignments of lines
\* 255-396
Alone(w) ==
  LET ps == [i \in 1..Len(positionAccounts) |->
               [posPda |-> positionAccounts[i].pubkey,
                adminAsset |-> positionAdminAsset(positionAccounts[i])]]
      kss == [i \in 1..Len(keyStateAccounts) |->
                [pubkey |-> keyStateAccounts[i].pubkey,
                 asset |-> keyStateAccounts[i].asset,
                 authoritySeed |-> keyStateAccounts[i].authoritySeed]]
      ainfos == getMultipleAccountsInfo([i \in 1..Len(ps) |-> ps[i].adminAsset])
      kinfos == getMultipleAccountsInfo([i \in 1..Len(kss) |-> kss[i].asset])
      st == Ranking(ps, ainfos, kss, kinfos, w, ps)
      at == positionAccountAt(st.bestPos)
      pos == IF at = {} THEN NoPosition
             ELSE LET data == positionAccounts[CHOOSE i \in at : TRUE]
                  IN  [loaded |-> TRUE, adminAsset |-> positionAdminAsset(data),
                       authoritySeed |-> positionAdminAsset(data)]
      pks == positionKeyStates(1, kss, pos.adminAsset)
      ring == IF ~pos.loaded THEN <<>>
              ELSE adminRosterEntry(ps, ainfos, w, pos.adminAsset)
                     \o delegatedRoster(1, pks,
                          getMultipleAccountsInfo([i \in 1..Len(pks) |-> pks[i].asset]), w)
  IN  IF st.bestPos = NULL \/ st.best = NoBest
      THEN <<NULL, NoPosition, -1, NULL, <<>>, <<>>, 0>>
      ELSE <<st.bestPos, pos, st.best.permissions, st.best.assetPubkey, ring,
             st.allFound, findIndex(st.allFound, st.bestPos)>>

\* C13: when two overlapping discoverPosition calls have both completed,
\* the published signals are the result one of the two calls delivers when
\* it runs alone, never a mixture of the two.
C13_OverlappingRunsDeliverTheirOwnResult ==
  (pc = "done" /\ other.pc = "done") =>
    signalVars \in {Alone(wallet), Alone(other.wallet)}

\* the index of the active position on the chain
ActiveIndex == CHOOSE i \in 1..Len(positionAccounts) : positionAccounts[i].pubkey = positionPda

\* the delegated key assets whose position attribute names the given seed
KeysBoundTo(seed) ==
  {keyStateAccounts[j].asset : j \in {k \in 1..Len(keyStateAccounts) :
      LET info == getAccountInfo(keyStateAccounts[k].asset)
      IN  info.exists /\ info.position = toBase58(seed)}}

\* C15: once a call has completed with a position loaded, the keyring is the
\* position's administrator key followed by exactly the delegated keys whose
\* position attribute equals the position's authoritySeed, and an entry's
\* heldBySigner flag is true exactly when the wallet owns the key asset.
C15_RosterOfActivePosition ==
  (Quiescent /\ position.loaded) =>
    /\ Len(keyring) >= 1
    /\ keyring[1].mint = positionAccounts[ActiveIndex].currentAdminAsset
    /\ {keyring[k].mint : k \in 2..Len(keyring)}
         = KeysBoundTo(positionAccounts[ActiveIndex].authoritySeed)
    /\ \A k \in 1..Len(keyring) :
         keyring[k].heldBySigner <=> getAccountInfo(keyring[k].mint).owner = wallet

RECURSIVE Addresses(_, _)
Addresses(records, field) ==
  IF records = <<>> THEN <<>>
  ELSE <<Head(records)[field]>> \o Addresses(Tail(records), field)

\* the accounts written as the on-chain program writes them
Intact(accounts) == SelectSeq(accounts, LAMBDA a : a.damage = "none")

\* C17: of the PromoConfig accounts given to the loop of discoverPromos, the
\* truncated ones and the ones with a string length prefix that runs past
\* the end of the data are left out, and the others are returned in the
\* order received.
C17_UndecodablePromosOmitted ==
  (/\ decoded.by = "discoverPromos"
   /\ \A i \in 1..Len(input.accounts) :
        input.accounts[i].damage \in {"none", "short", "prefix"}) =>
    Addresses(decoded.result, "pda") = Addresses(Intact(input.accounts), "pubkey")

\* C18: a decoder given an account whose leading 8-byte type tag is not that
\* of its schema returns no record, also when the account has exactly the
\* length of the schema.
C18_ForeignTagYieldsNoRecord ==
  (decoded.by \in {"parsePositionEntry", "parsePositionData", "parseKeyState",
                   "checkProtocol"}
   /\ Given.damage = "tag") =>
    decoded.result.outcome # "record"

\* C19: a decoder given an account one byte shorter than the least length of
\* its schema fails the decode: it returns no record and does not throw.
C19_OneByteShortFailsDecode ==
  (decoded.by \in {"parsePositionEntry", "parsePositionData", "parseKeyState",
                   "checkProtocol", "discoverPromos"}
   /\ Len(Given.data) = MinLength(Given.schema) - 1) =>
    IF decoded.by = "discoverPromos"
    THEN \A k \in 1..Len(decoded.result) : decoded.result[k].pda # Given.pubkey
    ELSE decoded.result.outcome = "null"

\* C20: the 64-bit fields of a record decoded from an account written as the
\* on-chain program writes it are the values written, bit for bit.
C20_SixtyFourBitFieldsExact ==
  (decoded.by # "none" /\ Given.damage = "none") =>
    /\ decoded.by = "parsePositionData" =>
         /\ decoded.result.depositedNav = exactNumber(Given.amount)
         /\ decoded.result.userDebt = exactNumber(Given.amount)
    /\ decoded.by = "parseKeyState" =>
         /\ decoded.result.buckets.sellBucket.capacity = exactNumber(Given.amount)
         /\ decoded.result.buckets.sellBucket.level = exactNumber(Given.amount)
         /\ decoded.result.buckets.borrowBucket.refillPeriod = exactNumber(Given.amount)
         /\ decoded.result.buckets.borrowBucket.lastUpdate = exactNumber(Given.amount)
    /\ decoded.by = "discoverPromos" =>
         /\ decoded.result[1].config.borrowCapacity = exactNumber(Given.amount)
         /\ decoded.result[1].config.sellCapacity = exactNumber(Given.amount)
         /\ decoded.result[1].config.minDepositLamports = exactNumber(Given.amount)

\* the asset was written as an asset of the expected kind
ExpectedKind(a) == a.key = 1 /\ a.uaTag \in {0, 1, 2}

\* no field of the asset holds bytes that read as an attribute
Plain(a) ==
  /\ a.name # LookAlike
  /\ \A k \in 1..Len(a.attrs) : a.attrs[k].value # LookAlike

\* the mask of the asset's own permissions attribute, -1 when it has none
OwnPermissions(a) ==
  LET value == attributeValue(a.attrs, PermissionsName)
  IN  IF value = <<>> THEN -1 ELSE parseInt([k \in 1..Len(value) |-> digitOf(value[k])])

\* C21: an asset with leading tag 1 and authority mode 0, 1 or 2 decodes,
\* with its owner, and its permissions attribute is found wherever the mode
\* puts it; an asset with another leading tag or another mode decodes to null.
C21_AssetDecoderFollowsTheMode ==
  /\ decoded.by = "parseMplCoreAsset" =>
       IF ExpectedKind(Given)
       THEN decoded.result.outcome = "record" /\ decoded.result.owner = Given.owner
       ELSE decoded.result.outcome = "null"
  /\ (decoded.by = "readPermissionsFromAssetData" /\ ExpectedKind(Given) /\ Plain(Given)) =>
       decoded.result = OwnPermissions(Given)

\* the least significant byte first value of the four bytes at an offset
U32At(data, offset) ==
  data[offset + 1] + 256 * data[offset + 2] + 65536 * data[offset + 3]
    + 16777216 * (data[offset + 4] % 64)

\* C22: the attribute scan reads no byte at or beyond the length of the data,
\* and it finds the attribute only at an offset where the four bytes are the
\* length of the name and the bytes after them are the name.
C22_ScanInBoundsAndExact ==
  decoded.by \in {"readPermissionsFromAssetData", "readPositionBindingFromAssetData"} =>
    /\ decoded.scan.hi < Len(Given.data)
    /\ decoded.scan.found =>
         /\ U32At(Given.data, decoded.scan.at) = Len(decoded.needleBytes)
         /\ Given.data[decoded.scan.at + 4] < 64
         /\ SubSeq(Given.data, decoded.scan.at + 5,
                   decoded.scan.at + 4 + Len(decoded.needleBytes)) = decoded.needleBytes

\* the permissions attribute was found behind an attribute whose key
\* contains the name, and the scan read the data up to its last bytes
C22_Witness ==
  /\ decoded.by = "readPermissionsFromAssetData"
  /\ decoded.scan.found
  /\ decoded.result = 9
  /\ Given.attrs[1].key = TextXPermissions

\* C30: the permissions mask and the position read from an asset of the
\* program are those of the asset's own attributes of these names, whatever
\* the name of the asset and the values of its other attributes hold.
C30_OnlyOwnAttributesAreRead ==
  (Given.key = 1 /\ Given.uaTag \in {1, 2}) =>
    /\ decoded.by = "readPermissionsFromAssetData" =>
         decoded.result = OwnPermissions(Given)
    /\ decoded.by = "readPositionBindingFromAssetData" =>
         decoded.result = attributeValue(Given.attrs, PositionName)

\* C23: for a bucket that does not change, the allowance computed at a later
\* slot is never less than the allowance computed at an earlier slot, also for
\* slots before the bucket's last update.
C23_AvailableMonotoneInSlot ==
  (decoded.by = "bucketAvailableNow" /\ decoded.before # <<>>) =>
    /\ decoded.before[1].currentSlot <= decoded.currentSlot =>
         decoded.before[1].result <= decoded.result
    /\ decoded.currentSlot <= decoded.before[1].currentSlot =>
         decoded.result <= decoded.before[1].result

C23_Witness ==
  /\ decoded.by = "bucketAvailableNow"
  /\ decoded.before # <<>>
  /\ decoded.before[1].currentSlot < Given.bucket.lastUpdate
  /\ decoded.before[1].currentSlot < decoded.currentSlot
  /\ decoded.before[1].result < decoded.result
  /\ decoded.result < Given.bucket.capacity

\* C24 as stated: the allowance computed at the bucket's own last update slot
\* is its stored level, for every bucket.
C24_AvailableAtLastUpdateIsLevel ==
  (decoded.by = "bucketAvailableNow" /\ decoded.currentSlot = Given.bucket.lastUpdate) =>
    decoded.result = Given.bucket.level

\* C24 amended: the allowance computed at the bucket's own last update slot is
\* its stored level for every bucket with a refill period above 0; with a
\* refill period of 0 it is the capacity.
C24_AvailableAtLastUpdate ==
  (decoded.by = "bucketAvailableNow" /\ decoded.currentSlot = Given.bucket.lastUpdate) =>
    decoded.result = IF Given.bucket.refillPeriod > 0 THEN Given.bucket.level
                     ELSE Given.bucket.capacity

C24_Witness ==
  /\ decoded.by = "bucketAvailableNow"
  /\ decoded.currentSlot = Given.bucket.lastUpdate
  /\ Given.bucket.lastUpdate > 0
  /\ Given.bucket.refillPeriod > 0
  /\ Given.bucket.level > 0
  /\ decoded.result = Given.bucket.level
  /\ decoded.result < Given.bucket.capacity

\* C25: the allowance never exceeds the capacity, and it is the capacity at
\* every slot at least a refill period after the last update, a refill period
\* of 0 included.
C25_AvailableWithinCapacity ==
  decoded.by = "bucketAvailableNow" =>
    /\ decoded.result <= Given.bucket.capacity
    /\ decoded.currentSlot - Given.bucket.lastUpdate >= Given.bucket.refillPeriod =>
         decoded.result = Given.bucket.capacity

C25_Witness ==
  /\ decoded.by = "bucketAvailableNow"
  /\ Given.bucket.refillPeriod = 0
  /\ Given.bucket.level < Given.bucket.capacity
  /\ decoded.currentSlot = Given.bucket.lastUpdate
  /\ decoded.result = Given.bucket.capacity

\* the roster discoverPosition builds for the position at an address
RosterOf(posPda) ==
  LET data == positionAccounts[CHOOSE i \in positionAccountAt(posPda) : TRUE]
      pks == positionKeyStates(1, keyStates, positionAdminAsset(data))
      infos == getMultipleAccountsInfo([i \in 1..Len(pks) |-> pks[i].asset])
  IN  adminRosterEntry(positions, adminAssetInfos, wallet, positionAdminAsset(data))
        \o delegatedRoster(1, pks, infos, wallet)

\* the key assets of the position at an address: its authority seed, its
\* current administrator and the assets of its KeyState accounts
MintsOf(posPda) ==
  LET data == positionAccounts[CHOOSE i \in positionAccountAt(posPda) : TRUE]
  IN  {data.authoritySeed, data.currentAdminAsset}
        \cup {keyStateAccounts[j].asset : j \in {k \in 1..Len(keyStateAccounts) :
                keyStateAccounts[k].authoritySeed = data.authoritySeed}}

\* C26: when selectActivePosition(i) has returned for a valid i, the
\* position address, the permissions and the key asset are those of
\* discovered position i, the position data are those of its account, and the
\* keyring is the roster of that position, with no key of another position.
C26_SwitchPublishesTheSelectedPosition ==
  other.pc = "returned" =>
    LET selected == discoveredPositions[other.index + 1]
    IN  /\ activePositionIndex = other.index
        /\ positionPda = selected.posPda
        /\ myPermissions = selected.permissions
        /\ myKeyAsset = selected.assetPubkey
        /\ position.loaded
        /\ derivePositionPda(position.authoritySeed) = selected.posPda
        /\ keyring = RosterOf(selected.posPda)
        /\ \A k \in 1..Len(keyring) : keyring[k].mint \in MintsOf(selected.posPda)

\* the bits of a mask, as their values; none for no mask
BitsOf(mask) ==
  IF mask = -1 THEN {} ELSE {2 ^ k : k \in {b \in 0..7 : (mask \div (2 ^ b)) % 2 = 1}}

\* the bits of which an action needs one
Required(action) ==
  CASE action = "buy" -> {1}
    [] action = "sell" -> {2, 64}
    [] action = "borrow" -> {4, 128}
    [] action = "repay" -> {8}
    [] action = "reinvest" -> {16}
    [] action = "authorize" -> {32}
    [] action = "revoke" -> {32}

\* C27: a button of the action bar is enabled only if the mask of the active
\* key has a bit the action needs (buy; sell or rate-limited sell; borrow or
\* rate-limited borrow; repay; reinvest; manage-keys for authorize and
\* revoke), and with no mask every button is disabled.
C27_ActionsGatedByTheMask ==
  decoded.by = "ActionBar" =>
    /\ \A action \in decoded.enabled : Required(action) \cap BitsOf(myPermissions) # {}
    /\ myPermissions = -1 => decoded.enabled = {}

C27_Witness ==
  /\ decoded.by = "ActionBar"
  /\ myPermissions = 64 + 8
  /\ decoded.enabled = {"sell", "repay"}

\* the modal is open before and after the step
StaysOpen == modal # Unmounted /\ modal' # Unmounted

\* C28: the modal enters 'confirm' only when a submit has passed its checks
\* and the builder has returned; it enters 'result' only from 'confirm', when
\* the transaction has been sent and confirmed; a failed check or a throwing
\* builder returns it to 'form' with an error; a failed send leaves it in
\* 'confirm', with an error and without a result.
C28_ModalFlow ==
  [][StaysOpen =>
       /\ (modal'.phase = "confirm" /\ modal.phase # "confirm") =>
            /\ modal.phase = "building"
            /\ handlers'.built = "ok"
            /\ modal'.pending = "built"
       /\ (modal'.phase = "result" /\ modal.phase # "result") =>
            /\ modal.phase = "confirm"
            /\ handlers'.sent = "confirmed"
            /\ modal'.result # "null"
       /\ (handlers'.built \in {"invalid", "failed"} /\ handlers'.built # handlers.built) =>
            /\ modal'.phase = "form"
            /\ modal'.error # "null"
       /\ (handlers'.sent = "failed" /\ handlers.sent # "failed") =>
            /\ modal'.phase = "confirm"
            /\ modal'.error # "null"
            /\ modal'.result = "null"]_vars

\* the result of a buy is shown
C28_Witness ==
  /\ modal # Unmounted
  /\ modal.phase = "result"
  /\ modal.action = "buy"
  /\ handlers.sent = "confirmed"
  /\ handlers.built = "ok"

\* C29: refreshing is true exactly when a refresh or a position switch is in
\* flight: a call that ends does not clear it while another call runs, and
\* it is false when none runs.
C29_RefreshingWhileInFlight ==
  refreshing <=> refreshCalls # <<>>

====
